---------------------------- MODULE Spec2Model ----------------------------
(***************************************************************************)
(* Verification model of the output-extraction engine of AIdeaToProd:     *)
(* PlanningMetadataSaver (balanced-span scan, fenced-block extraction,     *)
(* the JSON fallback chain, selection of a task by agent label).           *)
(*                                                                         *)
(* Text is a sequence of one-character strings.  A JSON value is a record  *)
(* [t, n, s, kids] of one shape for every kind of value, so that any two   *)
(* values can be compared.                                                 *)
(***************************************************************************)
EXTENDS Integers, Sequences, FiniteSets, TLC

VARIABLES
    pc,                  \* position of the operation under study
    text,                \* scan_pairs: the text scanned
    open_ch, close_ch,   \* scan_pairs: the delimiter pair
    candidates,          \* scan_pairs: the spans reported
    raw,                 \* _parse_json_from_raw: the raw task output
    parsed,              \* _parse_json_from_raw: the value returned
    tasks_output,        \* _extract_by_agent: the TaskOutput-like objects
    agent_name_keywords, \* _extract_by_agent: the keywords
    extracted,           \* _extract_by_agent: the mapping returned
    matched_task,        \* _extract_by_agent: the task the loop returned at, 0 for none
    jira_dict,           \* _ensure_jira_fields: the payload passed in
    jira_enriched,       \* _ensure_jira_fields: the payload returned
    env,                 \* LoadBundle: the environment variables and the file they name
    state,               \* LoadBundle(state): the BuildState passed in
    returned,            \* LoadBundle: what the call ended with
    result,              \* save: the result of the planning step passed in
    saved,               \* save: what the call ended with and the document written
    artifact_files,      \* workflow-state server: the content of each artifact's file
    reply                \* workflow-state server: what the last tool call returned

\* the variables of the planning metadata saver and those of the bundle loader
saverVars == <<pc, text, open_ch, close_ch, candidates, raw, parsed,
               tasks_output, agent_name_keywords, extracted, matched_task,
               jira_dict, jira_enriched>>
loaderVars == <<env, state, returned>>
stageVars == <<result, saved, artifact_files, reply>>

vars == <<saverVars, loaderVars, stageVars>>

\* the value of a variable the operation under study does not use
Unused == <<>>

-----------------------------------------------------------------------------
(* Characters *)

LB == "{"
RB == "}"
LS == "["
RS == "]"
DQ == "\""
BS == "\\"
\* the backtick (the lexer of TLA+ does not take it inside a string)
BT == "BACKTICK"
SP == " "
NL == "\n"

Range(f) == {f[x] : x \in DOMAIN f}

Min(S) == CHOOSE x \in S : \A y \in S : x <= y
Max(S) == CHOOSE x \in S : \A y \in S : x >= y

\* s[a..b] with Python's clipping of an empty slice
Slice(s, a, b) == IF a > b THEN <<>> ELSE SubSeq(s, a, b)

\* does pat occur in s at position i
StartsWithAt(s, i, pat) ==
    /\ i >= 1
    /\ i + Len(pat) - 1 <= Len(s)
    /\ \A k \in 1..Len(pat) : s[i + k - 1] = pat[k]

\* all texts over alphabet A of length at most n
TextsUpTo(A, n) == UNION {[1..k -> A] : k \in 0..n}

-----------------------------------------------------------------------------
(* JSON values, as json.loads yields them *)

JLit(name) == [t |-> "lit", n |-> 0, s |-> <<name>>, kids |-> <<>>]
JNull  == JLit("null")
JTrue  == JLit("true")
JFalse == JLit("false")
JNum(i) == [t |-> "num", n |-> i, s |-> <<>>, kids |-> <<>>]
JStr(chars) == [t |-> "str", n |-> 0, s |-> chars, kids |-> <<>>]
\* a list: kids are entries [k |-> <<>>, v |-> item]
JArr(entries) == [t |-> "arr", n |-> 0, s |-> <<>>, kids |-> entries]
\* a dict: kids are entries [k |-> key, v |-> value], in insertion order
JObj(entries) == [t |-> "obj", n |-> 0, s |-> <<>>, kids |-> entries]
Entry(k, v) == [k |-> k, v |-> v]

IsDict(v) == v.t = "obj"
IsList(v) == v.t = "arr"

\* Python truthiness of a decoded value
Truthy(v) ==
    CASE v.t = "obj" -> v.kids # <<>>
      [] v.t = "arr" -> v.kids # <<>>
      [] v.t = "str" -> v.s # <<>>
      [] v.t = "num" -> v.n # 0
      [] OTHER -> v = JTrue

\* dict[k] = v : replaces the value of an existing key in place, else appends
DictSet(entries, k, v) ==
    IF \E i \in 1..Len(entries) : entries[i].k = k
    THEN [i \in 1..Len(entries) |->
            IF entries[i].k = k THEN Entry(k, v) ELSE entries[i]]
    ELSE Append(entries, Entry(k, v))

HasKey(d, k) == \E i \in 1..Len(d.kids) : d.kids[i].k = k
DictGet(d, k) == d.kids[CHOOSE i \in 1..Len(d.kids) : d.kids[i].k = k].v

-----------------------------------------------------------------------------
(* json.loads, for the JSON grammar without fractions, exponents, \u escapes *)
(* and the NaN and Infinity literals                                         *)

Ok(v, p) == [ok |-> TRUE, val |-> v, pos |-> p]
Fail == [ok |-> FALSE, val |-> JNull, pos |-> 0]

\* the whitespace of JSON, of str.strip and of the regex class \s
IsSpace(ch) == ch \in {SP, NL, "\t", "\r", "\f"}
IsJsonSpace(ch) == ch \in {SP, NL, "\t", "\r"}
IsControl(ch) == ch \in {NL, "\t", "\r", "\f", "BACKSPACE"}

Digits == <<"0", "1", "2", "3", "4", "5", "6", "7", "8", "9">>
IsDigit(ch) == ch \in Range(Digits)
DigitVal(ch) == (CHOOSE d \in 1..10 : Digits[d] = ch) - 1

\* the character a backslash escape stands for
EscapeChars == {DQ, BS, "/", "b", "f", "n", "r", "t"}
Unescape(ch) ==
    CASE ch = "b" -> "BACKSPACE"
      [] ch = "f" -> "\f"
      [] ch = "n" -> NL
      [] ch = "r" -> "\r"
      [] ch = "t" -> "\t"
      [] OTHER -> ch

RECURSIVE SkipJsonSpace(_, _)
SkipJsonSpace(t, i) ==
    IF i <= Len(t) /\ IsJsonSpace(t[i]) THEN SkipJsonSpace(t, i + 1) ELSE i

\* the number of backslashes in a row that end right before position p, none
\* of them before position i
RECURSIVE BackslashRun(_, _, _)
BackslashRun(t, i, p) ==
    IF p - 1 >= i /\ t[p - 1] = BS THEN 1 + BackslashRun(t, i, p - 1) ELSE 0

\* the backslash at position p starts an escape
EscapeStart(t, i, p) == t[p] = BS /\ BackslashRun(t, i, p) % 2 = 0

\* the character at position p follows the backslash of an escape
EscapedAt(t, i, p) == p > i /\ EscapeStart(t, i, p - 1)

\* the characters of positions i..(j - 1) decoded
DecodedChars(t, i, j) ==
    LET kept == SelectSeq([k \in 1..(j - i) |-> i + k - 1],
                          LAMBDA p : ~EscapeStart(t, i, p))
    IN  [k \in 1..Len(kept) |->
            IF EscapedAt(t, i, kept[k]) THEN Unescape(t[kept[k]]) ELSE t[kept[k]]]

\* the first quote at or after position i that no escape covers, the
\* position after the text when there is none
ClosingQuote(t, i) ==
    LET quotes == {j \in i..Len(t) : t[j] = DQ /\ ~EscapedAt(t, i, j)} IN
    IF quotes = {} THEN Len(t) + 1 ELSE Min(quotes)

\* the body of a string literal from position i, acc the characters decoded:
\* it ends at the first quote that no escape covers, every escape is one of
\* EscapeChars and no other character is a control character
ParseChars(t, i, acc) ==
    LET j == ClosingQuote(t, i) IN
    IF j > Len(t) THEN Fail
    ELSE IF \A p \in i..(j - 1) :
               IF EscapedAt(t, i, p) THEN t[p] \in EscapeChars
               ELSE t[p] = BS \/ ~IsControl(t[p])
    THEN Ok(JStr(acc \o DecodedChars(t, i, j)), j + 1)
    ELSE Fail

RECURSIVE ParseDigits(_, _, _)
ParseDigits(t, i, acc) ==
    IF i <= Len(t) /\ IsDigit(t[i])
    THEN ParseDigits(t, i + 1, acc * 10 + DigitVal(t[i]))
    ELSE Ok(JNum(acc), i)

\* -?(0|[1-9][0-9]*)
ParseNumber(t, i) ==
    LET neg == t[i] = "-"
        j == IF neg THEN i + 1 ELSE i
    IN  IF j > Len(t) \/ ~IsDigit(t[j]) THEN Fail
        ELSE LET r == IF t[j] = "0" THEN Ok(JNum(0), j + 1)
                      ELSE ParseDigits(t, j, 0)
             IN  IF neg THEN Ok(JNum(0 - r.val.n), r.pos) ELSE r

RECURSIVE ParseValue(_, _)
RECURSIVE ParseMembers(_, _, _)
RECURSIVE ParseElements(_, _, _)

\* the members of an object from the key at position i
ParseMembers(t, i, acc) ==
    IF i > Len(t) \/ t[i] # DQ THEN Fail
    ELSE LET k == ParseChars(t, i + 1, <<>>) IN
         IF ~k.ok THEN Fail
         ELSE LET c == SkipJsonSpace(t, k.pos) IN
              IF c > Len(t) \/ t[c] # ":" THEN Fail
              ELSE LET v == ParseValue(t, SkipJsonSpace(t, c + 1)) IN
                   IF ~v.ok THEN Fail
                   ELSE LET acc2 == DictSet(acc, k.val.s, v.val)
                            e == SkipJsonSpace(t, v.pos)
                        IN  IF e > Len(t) THEN Fail
                            ELSE IF t[e] = RB THEN Ok(JObj(acc2), e + 1)
                            ELSE IF t[e] = ","
                                 THEN ParseMembers(t, SkipJsonSpace(t, e + 1), acc2)
                            ELSE Fail

\* the elements of an array from the value at position i
ParseElements(t, i, acc) ==
    LET v == ParseValue(t, i) IN
    IF ~v.ok THEN Fail
    ELSE LET acc2 == Append(acc, Entry(<<>>, v.val))
             e == SkipJsonSpace(t, v.pos)
         IN  IF e > Len(t) THEN Fail
             ELSE IF t[e] = RS THEN Ok(JArr(acc2), e + 1)
             ELSE IF t[e] = ","
                  THEN ParseElements(t, SkipJsonSpace(t, e + 1), acc2)
             ELSE Fail

\* the value that starts at position i
ParseValue(t, i) ==
    IF i > Len(t) THEN Fail
    ELSE IF t[i] = DQ THEN ParseChars(t, i + 1, <<>>)
    ELSE IF t[i] = LB
         THEN LET j == SkipJsonSpace(t, i + 1) IN
              IF j <= Len(t) /\ t[j] = RB THEN Ok(JObj(<<>>), j + 1)
              ELSE ParseMembers(t, j, <<>>)
    ELSE IF t[i] = LS
         THEN LET j == SkipJsonSpace(t, i + 1) IN
              IF j <= Len(t) /\ t[j] = RS THEN Ok(JArr(<<>>), j + 1)
              ELSE ParseElements(t, j, <<>>)
    ELSE IF StartsWithAt(t, i, <<"n", "u", "l", "l">>) THEN Ok(JNull, i + 4)
    ELSE IF StartsWithAt(t, i, <<"t", "r", "u", "e">>) THEN Ok(JTrue, i + 4)
    ELSE IF StartsWithAt(t, i, <<"f", "a", "l", "s", "e">>) THEN Ok(JFalse, i + 5)
    ELSE IF t[i] = "-" \/ IsDigit(t[i]) THEN ParseNumber(t, i)
    ELSE Fail

\* json.loads(t): one value, whitespace around it, nothing else; ok is FALSE
\* where json.loads raises
JsonLoads(t) ==
    LET r == ParseValue(t, SkipJsonSpace(t, 1)) IN
    IF r.ok /\ SkipJsonSpace(t, r.pos) = Len(t) + 1 THEN r ELSE Fail

-----------------------------------------------------------------------------
(* scan_pairs: the balanced-span scan of _parse_json_from_raw *)

\* start_idx is None
None == 0

\* the locals of scan_pairs before the loop; spans collects what this call
\* appends to candidates
ScanStart == [depth |-> 0, start_idx |-> None, in_string |-> FALSE,
              escape |-> FALSE, spans |-> <<>>]

\* the escape flag is never set: a backslash is an ordinary character
in_string_step_no_escape(st, ch) ==
    IF ch = DQ THEN [st EXCEPT !.in_string = FALSE] ELSE st

\* one character met inside a string literal
in_string_step(st, ch) ==
    IF st.escape THEN [st EXCEPT !.escape = FALSE]
    ELSE IF ch = BS THEN [st EXCEPT !.escape = TRUE]
    ELSE IF ch = DQ THEN [st EXCEPT !.in_string = FALSE]
    ELSE st

\* the span is appended at every closing delimiter, balanced or not
close_step_partial(txt, st, i) ==
    [st EXCEPT !.depth = IF @ > 0 THEN @ - 1 ELSE 0,
               !.spans = IF st.start_idx # None
                         THEN Append(@, Slice(txt, st.start_idx, i)) ELSE @]

\* the closing delimiter met outside a string literal, at position i
close_step(txt, st, i) ==
    IF st.depth > 0
    THEN IF st.depth - 1 = 0 /\ st.start_idx # None
         THEN [st EXCEPT !.depth = 0, !.start_idx = None,
                         !.spans = Append(@, Slice(txt, st.start_idx, i))]
         ELSE [st EXCEPT !.depth = @ - 1]
    ELSE st

\* the opening delimiter met outside a string literal, at position i
open_step(st, i) ==
    [st EXCEPT !.start_idx = IF st.depth = 0 THEN i ELSE @, !.depth = @ + 1]

\* the loop of scan_pairs from the character at position i, st its locals
RECURSIVE scan_loop(_, _, _, _, _)
scan_loop(txt, o, c, st, i) ==
    IF i > Len(txt) THEN st
    ELSE IF st.in_string
         THEN scan_loop(txt, o, c, in_string_step(st, txt[i]), i + 1)
    ELSE IF txt[i] = DQ
         THEN scan_loop(txt, o, c, [st EXCEPT !.in_string = TRUE], i + 1)
    ELSE IF txt[i] = o THEN scan_loop(txt, o, c, open_step(st, i), i + 1)
    ELSE IF txt[i] = c THEN scan_loop(txt, o, c, close_step(txt, st, i), i + 1)
    ELSE scan_loop(txt, o, c, st, i + 1)

\* the spans one call of scan_pairs appends to candidates, in order
scan_pairs(txt, o, c) == scan_loop(txt, o, c, ScanStart, 1).spans

-----------------------------------------------------------------------------
(* The brace scan of _extract_last_json_block_text *)

\* the locals before the loop
BraceStart == [depth |-> 0, start |-> None, in_string |-> FALSE,
               escape |-> FALSE, brace_spans |-> <<>>]

\* the first position at or after i whose character is in chars, the
\* position after the text when there is none
NextOf(txt, i, chars) ==
    LET at == {k \in i..Len(txt) : txt[k] \in chars} IN
    IF at = {} THEN Len(txt) + 1 ELSE Min(at)

\* the loop from the character at position i; a span is <<first, last>>.
\* The characters that change no local are passed over in one step.
RECURSIVE brace_loop(_, _, _)
brace_loop(txt, st, i) ==
    IF i > Len(txt) THEN st
    ELSE IF st.in_string
         THEN IF st.escape
              THEN brace_loop(txt, [st EXCEPT !.escape = FALSE], i + 1)
              ELSE IF txt[i] = BS
                   THEN brace_loop(txt, [st EXCEPT !.escape = TRUE], i + 1)
              ELSE IF txt[i] = DQ
                   THEN brace_loop(txt, [st EXCEPT !.in_string = FALSE], i + 1)
              ELSE brace_loop(txt, st, NextOf(txt, i + 1, {BS, DQ}))
    ELSE IF txt[i] = DQ
         THEN brace_loop(txt, [st EXCEPT !.in_string = TRUE], i + 1)
    ELSE IF txt[i] = LB
         THEN brace_loop(txt, [st EXCEPT !.start = IF st.depth = 0 THEN i ELSE @,
                                         !.depth = @ + 1], i + 1)
    ELSE IF txt[i] = RB /\ st.depth > 0
         THEN IF st.depth - 1 = 0 /\ st.start # None
              THEN brace_loop(txt, [st EXCEPT !.depth = 0, !.start = None,
                                              !.brace_spans = Append(@, <<st.start, i>>)],
                              i + 1)
              ELSE brace_loop(txt, [st EXCEPT !.depth = @ - 1], i + 1)
    ELSE brace_loop(txt, st, NextOf(txt, i + 1, {DQ, LB, RB}))

brace_spans(txt) == brace_loop(txt, BraceStart, 1).brace_spans

-----------------------------------------------------------------------------
(* _extract_fenced_json: the regex ```(?:json)?\s*(.*?)\s*``` with DOTALL and *)
(* IGNORECASE, its matches tried from last to first                          *)

Fence == <<BT, BT, BT>>
JsonTag == <<"j", "s", "o", "n">>

UpperCase == <<"A", "B", "C", "D", "E", "F", "G", "H", "I", "J", "K", "L", "M",
               "N", "O", "P", "Q", "R", "S", "T", "U", "V", "W", "X", "Y", "Z">>
LowerCase == <<"a", "b", "c", "d", "e", "f", "g", "h", "i", "j", "k", "l", "m",
               "n", "o", "p", "q", "r", "s", "t", "u", "v", "w", "x", "y", "z">>

\* str.lower, character by character
LowerChar(ch) ==
    IF ch \in Range(UpperCase)
    THEN LowerCase[CHOOSE k \in 1..26 : UpperCase[k] = ch]
    ELSE ch
Lower(s) == [i \in 1..Len(s) |-> LowerChar(s[i])]

\* \s* from position i: the position after the run of whitespace
RECURSIVE SkipSpace(_, _)
SkipSpace(s, i) ==
    IF i <= Len(s) /\ IsSpace(s[i]) THEN SkipSpace(s, i + 1) ELSE i

\* str.strip
Strip(s) ==
    LET keep == {i \in 1..Len(s) : ~IsSpace(s[i])} IN
    IF keep = {} THEN <<>> ELSE Slice(s, Min(keep), Max(keep))

\* str.replace(pat, rep): occurrences from the left, not overlapping
RECURSIVE Replace(_, _, _)
Replace(s, pat, rep) ==
    IF s = <<>> THEN <<>>
    ELSE IF StartsWithAt(s, 1, pat)
         THEN rep \o Replace(Slice(s, Len(pat) + 1, Len(s)), pat, rep)
    ELSE <<s[1]>> \o Replace(Tail(s), pat, rep)

\* the regex matched at position i: found, group(1) and the position after
\* the match.  The optional tag and the whitespace are taken greedily, the
\* content lazily up to the first place from which \s*``` matches.
FenceMatch(s, i) ==
    IF ~StartsWithAt(s, i, Fence)
    THEN [found |-> FALSE, group1 |-> <<>>, end |-> i]
    ELSE LET k0 == i + 3
             k1 == IF StartsWithAt(Lower(s), k0, JsonTag) THEN k0 + 4 ELSE k0
             k2 == SkipSpace(s, k1)
             es == {e \in k2..(Len(s) + 1) : StartsWithAt(s, SkipSpace(s, e), Fence)}
         IN  IF es = {}
             THEN [found |-> FALSE, group1 |-> <<>>, end |-> i]
             ELSE [found |-> TRUE,
                   group1 |-> Slice(s, k2, Min(es) - 1),
                   end |-> SkipSpace(s, Min(es)) + 3]

\* re.finditer from position p: group(1) of every match, in document order
RECURSIVE finditer_fences(_, _)
finditer_fences(s, p) ==
    LET starts == {i \in p..Len(s) : FenceMatch(s, i).found} IN
    IF starts = {} THEN <<>>
    ELSE LET m == FenceMatch(s, Min(starts)) IN
         <<m.group1>> \o finditer_fences(s, m.end)

\* the loop over reversed(fences), at the k-th fence; None is JNull.
\* fenced_try is the body of the loop: content the stripped group(1) and
\* loaded what json.loads makes of it.
RECURSIVE fenced_loop(_, _)
RECURSIVE fenced_try(_, _, _, _)
fenced_try(fences, k, content, loaded) ==
    IF content # <<>> /\ loaded.ok THEN loaded.val
    ELSE fenced_loop(fences, k - 1)

fenced_loop(fences, k) ==
    IF k = 0 THEN JNull
    ELSE fenced_try(fences, k, Strip(fences[k]), JsonLoads(Strip(fences[k])))

extract_fenced_json(r) ==
    LET fences == finditer_fences(r, 1) IN fenced_loop(fences, Len(fences))

-----------------------------------------------------------------------------
(* _parse_json_from_raw *)

ExcerptLen == 400

K_error == <<"e", "r", "r", "o", "r">>
K_raw_excerpt == <<"r", "a", "w", "_", "e", "x", "c", "e", "r", "p", "t">>

\* a message is kept as one token
Message(m) == JStr(<<m>>)

EmptyOutputError == JObj(<<Entry(K_error, Message("empty task output"))>>)

\* the message of the exception is not modelled
ParseFailure(txt) ==
    JObj(<<Entry(K_error, Message("failed to parse JSON")),
           Entry(K_raw_excerpt,
                 JStr(Slice(txt, Max({1, Len(txt) - ExcerptLen + 1}), Len(txt))))>>)

\* raw.strip().replace("```json", "```").replace("```", "\n")
normalize(r) == Replace(Replace(Strip(r), Fence \o JsonTag, Fence), Fence, <<NL>>)

\* candidates after scan_pairs("{", "}") and scan_pairs("[", "]")
pooled_candidates(txt) == scan_pairs(txt, LB, RB) \o scan_pairs(txt, LS, RS)

\* the loop over reversed(candidates), at the k-th chunk; ok is FALSE when
\* no chunk parses.  candidates_try is the body of the loop, loaded what
\* json.loads makes of the chunk.
RECURSIVE candidates_loop(_, _)
RECURSIVE candidates_try(_, _, _)
candidates_try(chunks, k, loaded) ==
    IF loaded.ok THEN loaded ELSE candidates_loop(chunks, k - 1)

candidates_loop(chunks, k) ==
    IF k = 0 THEN Fail ELSE candidates_try(chunks, k, JsonLoads(chunks[k]))

\* the last strategy: loaded is what json.loads makes of the whole text
parse_whole_text(txt, loaded) ==
    IF loaded.ok THEN loaded.val ELSE ParseFailure(txt)

\* the balanced spans, c what the loop over reversed(candidates) found
parse_after_spans(txt, c) ==
    IF c.ok THEN c.val ELSE parse_whole_text(txt, JsonLoads(txt))

\* the strategies that follow the fenced blocks, on the normalised text
parse_spans(txt, chunks) ==
    parse_after_spans(txt, candidates_loop(chunks, Len(chunks)))

\* the test of what _extract_fenced_json returned
parse_after_fenced(r, fenced_json) ==
    IF Truthy(fenced_json) THEN fenced_json
    ELSE parse_spans(normalize(r), pooled_candidates(normalize(r)))

parse_json_from_raw(r) ==
    IF r = <<>> THEN EmptyOutputError
    ELSE parse_after_fenced(r, extract_fenced_json(r))

-----------------------------------------------------------------------------
(* _extract_by_agent.  A task is [agent, json_dict, raw]: agent the label  *)
(* (empty when the attribute is missing or None), json_dict a dict or JNull *)
(* for None, raw the text.                                                  *)

\* pat in s
Contains(s, pat) == \E i \in 1..(Len(s) + 1) : StartsWithAt(s, i, pat)

EmptyDict == JObj(<<>>)

\* the label is compared as it is written
agent_label_as_written(task) == task.agent

\* agent_l = str(agent).lower()
agent_label(task) == Lower(task.agent)

\* any(kw in agent_l for kw in agent_name_keywords)
label_matches(agent_l, kws) == \E k \in 1..Len(kws) : Contains(agent_l, kws[k])

\* dicts[-1] of a parsed list that holds a dict
LastDict(lst) ==
    lst.kids[Max({i \in 1..Len(lst.kids) : IsDict(lst.kids[i].v)})].v

\* the parsed value is returned whatever it is
payload_as_parsed(r, p) == p

\* what the loop returns once the raw text of the matched task is parsed to p
payload_from_parsed(r, p) ==
    IF IsList(p)
    THEN IF \E i \in 1..Len(p.kids) : IsDict(p.kids[i].v)
         THEN LastDict(p)
         ELSE JObj(<<Entry(K_error, Message("Parsed list without dicts"))>>)
    ELSE IF IsDict(p) THEN p
    ELSE JObj(<<Entry(K_error, Message("Could not parse task JSON")),
                Entry(K_raw_excerpt, JStr(Slice(r, 1, Min({ExcerptLen, Len(r)}))))>>)

\* what the loop returns for the task whose label matched
task_payload(task) ==
    IF IsDict(task.json_dict) /\ Truthy(task.json_dict) THEN task.json_dict
    ELSE payload_from_parsed(task.raw, parse_json_from_raw(task.raw))

RECURSIVE extract_loop_past_errors(_, _, _)
\* a matching task that yields an error is passed over
extract_loop_past_errors(tasks, kws, i) ==
    IF i > Len(tasks) THEN [at |-> 0, ret |-> EmptyDict]
    ELSE IF agent_label(tasks[i]) = <<>> THEN extract_loop_past_errors(tasks, kws, i + 1)
    ELSE IF label_matches(agent_label(tasks[i]), kws)
            /\ ~HasKey(task_payload(tasks[i]), K_error)
         THEN [at |-> i, ret |-> task_payload(tasks[i])]
    ELSE extract_loop_past_errors(tasks, kws, i + 1)

\* the loop over tasks_output from the i-th task: the task returned at
\* (0 when the loop ends) and the mapping returned
RECURSIVE extract_loop(_, _, _)
extract_loop(tasks, kws, i) ==
    IF i > Len(tasks) THEN [at |-> 0, ret |-> EmptyDict]
    ELSE IF agent_label(tasks[i]) = <<>> THEN extract_loop(tasks, kws, i + 1)
    ELSE IF label_matches(agent_label(tasks[i]), kws)
         THEN [at |-> i, ret |-> task_payload(tasks[i])]
    ELSE extract_loop(tasks, kws, i + 1)

extract_by_agent(tasks, kws) == extract_loop(tasks, kws, 1)

-----------------------------------------------------------------------------
(* _ensure_jira_fields and its helpers _extract_last_json_block_text and    *)
(* _regex_extract_implementation_plan; jd stands for the local jira_dict    *)

K_implementation_plan == <<"i", "m", "p", "l", "e", "m", "e", "n", "t", "a", "t", "i", "o", "n", "_", "p", "l", "a", "n">>
K_implementation_plan_str == <<"i", "m", "p", "l", "e", "m", "e", "n", "t", "a", "t", "i", "o", "n", "_", "p", "l", "a", "n", "_", "s", "t", "r">>
K_jira_project_key == <<"j", "i", "r", "a", "_", "p", "r", "o", "j", "e", "c", "t", "_", "k", "e", "y">>
K_epics_created_count == <<"e", "p", "i", "c", "s", "_", "c", "r", "e", "a", "t", "e", "d", "_", "c", "o", "u", "n", "t">>
K_stories_created_count == <<"s", "t", "o", "r", "i", "e", "s", "_", "c", "r", "e", "a", "t", "e", "d", "_", "c", "o", "u", "n", "t">>

\* the keywords that find the Jira task for enrichment
KW_jira_enrich == <<<<"j", "i", "r", "a">>, <<"d", "e", "l", "i", "v", "e", "r", "y", SP, "p", "l", "a", "n", "n", "e", "r">>, <<"p", "r", "o", "j", "e", "c", "t", SP, "o", "r", "g", "a", "n", "i", "z", "e", "r">>>>

\* dict.get(k): None when the key is missing
Get(d, k) == IF HasKey(d, k) THEN DictGet(d, k) ELSE JNull

\* entries updated with the entries upd, in their order
RECURSIVE DictUpdate(_, _)
DictUpdate(entries, upd) ==
    IF upd = <<>> THEN entries
    ELSE DictUpdate(DictSet(entries, Head(upd).k, Head(upd).v), Tail(upd))

\* no payload passes the first test
never_good(jd) == FALSE

\* the first test: one of the four fields is there and the plan is not empty
already_good(jd) ==
    /\ \E k \in {K_implementation_plan, K_jira_project_key,
                 K_epics_created_count, K_stories_created_count} : HasKey(jd, k)
    /\ Truthy(Get(jd, K_implementation_plan))

\* the loop that finds the raw text of the Jira task, from the i-th task:
\* the first text that is not empty among the tasks whose label matches
RECURSIVE jira_task_raw(_, _)
jira_task_raw(tasks, i) ==
    IF i > Len(tasks) THEN <<>>
    ELSE IF label_matches(Lower(tasks[i].agent), KW_jira_enrich)
            /\ tasks[i].raw # <<>>
         THEN tasks[i].raw
    ELSE jira_task_raw(tasks, i + 1)

\* the task whose raw text that loop ends with, 0 when it ends with none
RECURSIVE jira_task_index(_, _)
jira_task_index(tasks, i) ==
    IF i > Len(tasks) THEN 0
    ELSE IF label_matches(Lower(tasks[i].agent), KW_jira_enrich)
            /\ tasks[i].raw # <<>>
         THEN i
    ELSE jira_task_index(tasks, i + 1)

\* _extract_last_json_block_text: the text as a JSON string, JNull for None
last_block_of(txt, fences, spans) ==
    IF fences # <<>> THEN JStr(Strip(fences[Len(fences)]))
    ELSE IF spans # <<>>
         THEN JStr(Strip(Slice(txt, spans[Len(spans)][1], spans[Len(spans)][2])))
    ELSE JNull

extract_last_json_block_text(r) ==
    last_block_of(Strip(r), finditer_fences(Strip(r), 1), brace_spans(Strip(r)))

\* {**obj, **jira_dict, **{k: v for k, v in obj.items() if v}}
merge_dicts(obj, jd) ==
    JObj(DictUpdate(DictUpdate(obj.kids, jd.kids),
                    SelectSeq(obj.kids, LAMBDA e : Truthy(e.v))))

\* the body of the try: loaded is what json.loads makes of the block; a
\* value that is not a dict makes the merge raise, which is passed over
merge_loaded(jd, loaded) ==
    IF loaded.ok /\ IsDict(loaded.val) THEN merge_dicts(loaded.val, jd)
    ELSE jd

merge_block(jd, block) ==
    IF Truthy(block) THEN merge_loaded(jd, JsonLoads(block.s))
    ELSE jd

\* "key"\s*:\s* matched at position i: the position after it, 0 for no match
KeyColonEnd(s, i, key, ignorecase) ==
    LET q == <<DQ>> \o key \o <<DQ>>
        j == SkipSpace(s, i + Len(q))
    IN  IF StartsWithAt(IF ignorecase THEN Lower(s) ELSE s, i, q)
           /\ j <= Len(s) /\ s[j] = ":"
        THEN SkipSpace(s, j + 1)
        ELSE 0

\* the position of the first ch at or after position p, 0 when there is none
Find(s, p, ch) ==
    LET at == {i \in p..Len(s) : s[i] = ch} IN IF at = {} THEN 0 ELSE Min(at)

\* re.findall of "([^"]+)" from position p
RECURSIVE findall_quoted(_, _)
findall_quoted(s, p) ==
    LET starts == {i \in p..Len(s) : s[i] = DQ /\ Find(s, i + 1, DQ) >= i + 2} IN
    IF starts = {} THEN <<>>
    ELSE LET i == Min(starts)
             j == Find(s, i + 1, DQ)
         IN  <<Slice(s, i + 1, j - 1)>> \o findall_quoted(s, j + 1)

\* [s.strip() for s in items if s.strip()]
stripped_items(items) ==
    SelectSeq([k \in 1..Len(items) |-> Strip(items[k])], LAMBDA s : s # <<>>)

\* the search "implementation_plan"\s*:\s*\[(.*?)\] with DOTALL and
\* IGNORECASE: found and group(1)
search_plan_array(r) ==
    LET starts == {i \in 1..Len(r) :
                      LET p == KeyColonEnd(r, i, K_implementation_plan, TRUE) IN
                      /\ p # 0 /\ p <= Len(r) /\ r[p] = LS
                      /\ Find(r, p + 1, RS) # 0}
    IN  IF starts = {} THEN [found |-> FALSE, inner |-> <<>>]
        ELSE LET p == KeyColonEnd(r, Min(starts), K_implementation_plan, TRUE) IN
             [found |-> TRUE, inner |-> Slice(r, p + 1, Find(r, p + 1, RS) - 1)]

\* the inner span is kept as it stands
plan_of_match_unstripped(m, items) ==
    IF ~m.found THEN [plan_list |-> <<>>, plan_str |-> JNull]
    ELSE IF items # <<>> THEN [plan_list |-> items, plan_str |-> JNull]
    ELSE [plan_list |-> <<>>,
          plan_str |-> IF m.inner # <<>> THEN JStr(m.inner) ELSE JNull]

\* the pair returned: plan_list a list of texts, plan_str a string or None
plan_of_match(m, items) ==
    IF ~m.found THEN [plan_list |-> <<>>, plan_str |-> JNull]
    ELSE IF items # <<>> THEN [plan_list |-> items, plan_str |-> JNull]
    ELSE [plan_list |-> <<>>,
          plan_str |-> IF m.inner # <<>> THEN JStr(Strip(m.inner)) ELSE JNull]

regex_extract_implementation_plan(r) ==
    plan_of_match(search_plan_array(r),
                  stripped_items(findall_quoted(search_plan_array(r).inner, 1)))

StrList(items) == JArr([k \in 1..Len(items) |-> Entry(<<>>, JStr(items[k]))])

\* the regex fallback for the plan, ex the pair the extraction returned
set_plan(jd, ex) ==
    IF ex.plan_list # <<>>
    THEN JObj(DictSet(jd.kids, K_implementation_plan, StrList(ex.plan_list)))
    ELSE IF Truthy(ex.plan_str)
         THEN JObj(DictSet(jd.kids, K_implementation_plan_str, ex.plan_str))
    ELSE jd

ensure_plan(jd, r) ==
    IF Truthy(Get(jd, K_implementation_plan)) THEN jd
    ELSE set_plan(jd, regex_extract_implementation_plan(r))

\* the search "key"\s*:\s*"([^"]+)": found and group(1)
search_quoted_value(r, key) ==
    LET starts == {i \in 1..Len(r) :
                      LET p == KeyColonEnd(r, i, key, FALSE) IN
                      /\ p # 0 /\ p <= Len(r) /\ r[p] = DQ
                      /\ Find(r, p + 1, DQ) >= p + 2}
    IN  IF starts = {} THEN [found |-> FALSE, group1 |-> <<>>]
        ELSE LET p == KeyColonEnd(r, Min(starts), key, FALSE) IN
             [found |-> TRUE, group1 |-> Slice(r, p + 1, Find(r, p + 1, DQ) - 1)]

ensure_project_key(jd, r) ==
    IF ~Truthy(Get(jd, K_jira_project_key))
       /\ search_quoted_value(r, K_jira_project_key).found
    THEN JObj(DictSet(jd.kids, K_jira_project_key,
                      JStr(search_quoted_value(r, K_jira_project_key).group1)))
    ELSE jd

\* the search "key"\s*:\s*(\d+): found and int(group(1))
search_count(r, key) ==
    LET starts == {i \in 1..Len(r) :
                      LET p == KeyColonEnd(r, i, key, FALSE) IN
                      p # 0 /\ p <= Len(r) /\ IsDigit(r[p])}
    IN  IF starts = {} THEN [found |-> FALSE, count |-> 0]
        ELSE [found |-> TRUE,
              count |-> ParseDigits(r, KeyColonEnd(r, Min(starts), key, FALSE), 0).val.n]

ensure_count(jd, r, key) ==
    IF Get(jd, key) = JNull /\ search_count(r, key).found
    THEN JObj(DictSet(jd.kids, key, JNum(search_count(r, key).count)))
    ELSE jd

\* the error is set as soon as the plan is missing
ensure_error_without_plan(jd) ==
    IF ~Truthy(Get(jd, K_implementation_plan)) /\ ~HasKey(jd, K_error)
    THEN JObj(Append(jd.kids,
                     Entry(K_error, Message("Could not extract Jira payload"))))
    ELSE jd

\* jira_dict.setdefault("error", ...) when no field holds a value
ensure_error(jd) ==
    IF (\A k \in {K_implementation_plan, K_implementation_plan_str,
                  K_jira_project_key, K_epics_created_count,
                  K_stories_created_count} : ~Truthy(Get(jd, k)))
       /\ ~HasKey(jd, K_error)
    THEN JObj(Append(jd.kids,
                     Entry(K_error, Message("Could not extract Jira payload"))))
    ELSE jd

\* the steps that follow the merge
ensure_after_merge(jd, r) ==
    ensure_error(
        ensure_count(
            ensure_count(
                ensure_project_key(ensure_plan(jd, r), r),
                r, K_epics_created_count),
            r, K_stories_created_count))

\* the steps that follow the search of the Jira task, r its raw text
ensure_from_raw(jd, r) ==
    IF r = <<>> THEN jd
    ELSE ensure_after_merge(merge_block(jd, extract_last_json_block_text(r)), r)

ensure_jira_fields(jd, tasks) ==
    IF already_good(jd) THEN jd
    ELSE ensure_from_raw(jd, jira_task_raw(tasks, 1))

\* the merge gave the local name jira_dict a new dict: the block was found
\* and json.loads made a dict of it
merge_rebinds(jd, r) ==
    LET block == extract_last_json_block_text(r) IN
    /\ Truthy(block)
    /\ JsonLoads(block.s).ok
    /\ IsDict(JsonLoads(block.s).val)

\* the dict of the caller once the call has returned: the assignments that
\* follow the merge write into it unless the merge has made a new dict
caller_dict_after(jd, tasks) ==
    IF already_good(jd) \/ jira_task_raw(tasks, 1) = <<>> THEN jd
    ELSE IF merge_rebinds(jd, jira_task_raw(tasks, 1)) THEN jd
    ELSE ensure_jira_fields(jd, tasks)

-----------------------------------------------------------------------------
(* repository_creation/load_bundle.py: LoadBundle and its helpers.  An       *)
(* exception is named by its class; the result of a step is the exception    *)
(* it raises or the value it returns.                                        *)

K_app_name == <<"a", "p", "p", "_", "n", "a", "m", "e">>
K_code_structure == <<"c", "o", "d", "e", "_", "s", "t", "r", "u", "c", "t", "u", "r", "e">>
K_files == <<"f", "i", "l", "e", "s">>
K_path == <<"p", "a", "t", "h">>
K_purpose == <<"p", "u", "r", "p", "o", "s", "e">>
K_spec == <<"s", "p", "e", "c">>
K_status == <<"s", "t", "a", "t", "u", "s">>
K_root == <<"r", "o", "o", "t">>
K_assumptions == <<"a", "s", "s", "u", "m", "p", "t", "i", "o", "n", "s">>
K_dd == <<"d", "d">>
K_hld == <<"h", "l", "d">>
K_detailed_doc_id == <<"d", "e", "t", "a", "i", "l", "e", "d", "_", "d", "o", "c", "_", "i", "d">>
K_hl_doc_id == <<"h", "l", "_", "d", "o", "c", "_", "i", "d">>
K_jira == <<"j", "i", "r", "a">>

NoPurpose == <<"N", "o", SP, "p", "u", "r", "p", "o", "s", "e", SP, "p", "r", "o", "v", "i", "d", "e", "d">>
UnknownApp == <<"U", "N", "K", "N", "O", "W", "N", "_", "A", "P", "P">>
UnknownRepo == <<"U", "N", "K", "N", "O", "W", "N", "_", "R", "E", "P", "O">>
UnknownOwner == <<"U", "N", "K", "N", "O", "W", "N", "_", "O", "W", "N", "E", "R">>
PlanNote == <<"J", "i", "r", "a", SP, "p", "l", "a", "n", SP, "i", "t", "e", "m", "s", ":", SP>>
MainBranch == <<"m", "a", "i", "n">>
OriginLoadBundle == <<"L", "o", "a", "d", "B", "u", "n", "d", "l", "e">>

\* the classes of exception that are a ValueError
ValueErrors == {"ValueError", "JSONDecodeError", "UnicodeDecodeError", "ValidationError"}

Raise(kind) == [exc |-> kind, val |-> JNull]
Return(v) == [exc |-> "none", val |-> v]
Raised(r) == r.exc # "none"

IsStr(v) == v.t = "str"
IsOptionalStr(v) == v = JNull \/ IsStr(v)
IsStrList(v) == IsList(v) /\ \A i \in 1..Len(v.kids) : IsStr(v.kids[i].v)

\* str(n) of a natural number
RECURSIVE ToDecimal(_)
ToDecimal(n) ==
    IF n < 10 THEN <<Digits[n + 1]>>
    ELSE ToDecimal(n \div 10) \o <<Digits[(n % 10) + 1]>>

\* v or {}
OrEmptyDict(v) == IF Truthy(v) THEN v ELSE EmptyDict

\* json.loads(...) returns the value or raises, p what JsonLoads gave
loads_result(p) == IF p.ok THEN Return(p.val) ELSE Raise("JSONDecodeError")

\* _load_bundle_from_file; e the environment: path_set whether the variable
\* that names the path is set, file what stands at the path, content the
\* text of the file
load_bundle_from_file(e) ==
    IF ~e.path_set THEN Raise("TypeError")
    ELSE IF e.file = "missing" THEN Raise("FileNotFoundError")
    ELSE IF e.file = "undecodable" THEN Raise("UnicodeDecodeError")
    ELSE loads_result(JsonLoads(e.content))

\* the test of code_structure.files, cs what b.get("code_structure") or {} gave
validate_files(cs) ==
    IF ~IsDict(cs) THEN "AttributeError"
    ELSE IF ~IsList(Get(cs, K_files)) \/ ~Truthy(Get(cs, K_files)) THEN "ValueError"
    ELSE "none"

\* _validate_incoming: the exception raised, "none" when the bundle passes
validate_incoming(b) ==
    IF ~IsDict(b) THEN "ValueError"
    ELSE IF ~Truthy(Get(b, K_app_name)) THEN "ValueError"
    ELSE validate_files(OrEmptyDict(Get(b, K_code_structure)))

\* the status is the one the entry declares
file_to_spec_declared_status(f) ==
    IF ~IsDict(f) THEN Raise("TypeError")
    ELSE IF ~HasKey(f, K_path) THEN Raise("KeyError")
    ELSE IF /\ IsStr(DictGet(f, K_path))
            /\ HasKey(f, K_purpose) => IsStr(DictGet(f, K_purpose))
            /\ IsOptionalStr(Get(f, K_spec))
         THEN Return([path |-> DictGet(f, K_path).s,
                      purpose |-> IF HasKey(f, K_purpose) THEN DictGet(f, K_purpose).s
                                  ELSE NoPurpose,
                      spec |-> Get(f, K_spec),
                      status |-> IF HasKey(f, K_status) THEN "done" ELSE "pending"])
    ELSE Raise("ValidationError")

\* FileSpec(path=f["path"], purpose=f.get("purpose", ...), spec=f.get("spec"),
\* status="pending") for one entry of files
file_to_spec(f) ==
    IF ~IsDict(f) THEN Raise("TypeError")
    ELSE IF ~HasKey(f, K_path) THEN Raise("KeyError")
    ELSE IF /\ IsStr(DictGet(f, K_path))
            /\ HasKey(f, K_purpose) => IsStr(DictGet(f, K_purpose))
            /\ IsOptionalStr(Get(f, K_spec))
         THEN Return([path |-> DictGet(f, K_path).s,
                      purpose |-> IF HasKey(f, K_purpose) THEN DictGet(f, K_purpose).s
                                  ELSE NoPurpose,
                      spec |-> Get(f, K_spec),
                      status |-> "pending"])
    ELSE Raise("ValidationError")

RECURSIVE files_to_specs(_, _, _)
\* the list comprehension after its i-th entry gave fs
specs_after(files, i, acc, fs) ==
    IF Raised(fs) THEN fs ELSE files_to_specs(files, i + 1, Append(acc, fs.val))

\* _files_to_specs from the i-th entry, acc the specs built so far
files_to_specs(files, i, acc) ==
    IF i > Len(files) THEN Return(acc)
    ELSE specs_after(files, i, acc, file_to_spec(files[i].v))

\* the texts of a list of strings
Texts(lst) == [i \in 1..Len(lst.kids) |-> lst.kids[i].v.s]

\* len(impl_plan): negative for a value without a length
LenOf(v) ==
    CASE v.t = "str" -> Len(v.s)
      [] v.t \in {"arr", "obj"} -> Len(v.kids)
      [] OTHER -> -1

\* assumptions with the note of the plan appended when there is a plan
seed_assumptions(assumptions, impl_plan) ==
    IF Truthy(impl_plan)
    THEN Append(assumptions, PlanNote \o ToDecimal(LenOf(impl_plan)))
    ELSE assumptions

\* os.getenv("GITHUB_USERNAME", "UNKNOWN_OWNER")
owner_of(e) == IF e.owner = JNull THEN UnknownOwner ELSE e.owner.s

\* BuildState(...) with the defaults of the fields that are not given
BuildState(app_name, repo, design, code_structure, assumptions, errors) ==
    [app_name |-> app_name, repo |-> repo, design |-> design,
     code_structure |-> code_structure, pending_files |-> <<>>,
     completed_files |-> <<>>, assumptions |-> assumptions, errors |-> errors]

\* the body of the try after _files_to_specs: b the validated bundle, cs_in
\* its code_structure, specs the file specs, root and assumptions what
\* cs_in.get gave, dd, hld and jira the members or {}
build_state(e, b, specs, root, assumptions, dd, hld, jira) ==
    IF ~IsStr(root) \/ ~IsStrList(assumptions) THEN Raise("ValidationError")
    ELSE IF ~IsDict(dd) \/ ~IsDict(hld) THEN Raise("AttributeError")
    ELSE IF ~IsOptionalStr(Get(dd, K_detailed_doc_id))
            \/ ~IsOptionalStr(Get(hld, K_hl_doc_id)) THEN Raise("ValidationError")
    ELSE IF ~IsStr(DictGet(b, K_app_name)) THEN Raise("ValidationError")
    ELSE IF ~IsDict(jira) THEN Raise("AttributeError")
    ELSE IF Truthy(Get(jira, K_implementation_plan))
            /\ LenOf(Get(jira, K_implementation_plan)) < 0 THEN Raise("TypeError")
    ELSE Return(BuildState(
            DictGet(b, K_app_name).s,
            [owner |-> owner_of(e), name |-> DictGet(b, K_app_name).s,
             default_branch |-> MainBranch, created |-> FALSE],
            [dd_id |-> Get(dd, K_detailed_doc_id), hld_id |-> Get(hld, K_hl_doc_id)],
            [root |-> root.s, files |-> specs, assumptions |-> Texts(assumptions)],
            seed_assumptions(Texts(assumptions), Get(jira, K_implementation_plan)),
            <<>>))

\* the body of the try after _validate_incoming, specs what _files_to_specs gave
convert_bundle(e, b, cs_in, specs) ==
    IF Raised(specs) THEN specs
    ELSE build_state(e, b, specs.val,
                     IF HasKey(cs_in, K_root) THEN DictGet(cs_in, K_root)
                     ELSE DictGet(b, K_app_name),
                     IF HasKey(cs_in, K_assumptions) THEN DictGet(cs_in, K_assumptions)
                     ELSE JArr(<<>>),
                     OrEmptyDict(Get(b, K_dd)), OrEmptyDict(Get(b, K_hld)),
                     OrEmptyDict(Get(b, K_jira)))

\* the body of the try after _load_bundle_from_file, b the bundle loaded,
\* invalid what _validate_incoming raised
validate_and_convert(e, b, invalid) ==
    IF invalid # "none" THEN Raise(invalid)
    ELSE convert_bundle(e, b, DictGet(b, K_code_structure),
                        files_to_specs(Get(DictGet(b, K_code_structure), K_files).kids,
                                       1, <<>>))

\* the body of the try, loaded what _load_bundle_from_file gave
try_body(e, loaded) ==
    IF Raised(loaded) THEN loaded
    ELSE validate_and_convert(e, loaded.val, validate_incoming(loaded.val))

\* the classification of _make_error_state
error_category(kind) ==
    IF kind = "FileNotFoundError" THEN "io"
    ELSE IF kind = "JSONDecodeError" THEN "json"
    ELSE IF kind \in ValueErrors THEN "validation"
    ELSE "unknown"

\* _make_error_state; the message of the error is not modelled
make_error_state(kind, e) ==
    BuildState(UnknownApp,
               [owner |-> owner_of(e), name |-> UnknownRepo,
                default_branch |-> MainBranch, created |-> FALSE],
               [dd_id |-> JNull, hld_id |-> JNull],
               [root |-> <<".">>, files |-> <<>>, assumptions |-> <<>>],
               <<>>,
               <<[origin |-> OriginLoadBundle,
                  category |-> error_category(kind),
                  retryable |-> FALSE,
                  context |-> IF kind = "FileNotFoundError" THEN <<"path">> ELSE <<>>]>>)

\* only a ValueError is caught
except_value_error(e, r) ==
    IF ~Raised(r) THEN [raised |-> "none", caught |-> "none", state |-> r.val]
    ELSE IF r.exc \in ValueErrors
         THEN [raised |-> "none", caught |-> r.exc, state |-> make_error_state(r.exc, e)]
    ELSE [raised |-> r.exc, caught |-> "none", state |-> make_error_state(r.exc, e)]

\* except Exception as e: r what the body of the try ended with.  What the
\* call ends with: raised the exception that leaves it ("none" when it
\* returns), caught the exception the handler caught and state the
\* BuildState returned
except_exception(e, r) ==
    IF ~Raised(r) THEN [raised |-> "none", caught |-> "none", state |-> r.val]
    ELSE [raised |-> "none", caught |-> r.exc, state |-> make_error_state(r.exc, e)]

load_bundle(e) == except_exception(e, try_body(e, load_bundle_from_file(e)))

-----------------------------------------------------------------------------
(* The scan on its own: every text over ScanAlphabet up to MaxScanLen, and  *)
(* the texts the specification names, under either delimiter pair           *)

MaxScanLen == 5

ScanAlphabet == {LB, RB, LS, RS, DQ, BS, "a"}

\* {"a": "}"}
QuotedCloseText == <<LB, DQ, "a", DQ, ":", SP, DQ, RB, DQ, RB>>
\* {"a": "\"}"}
EscapedQuoteText == <<LB, DQ, "a", DQ, ":", SP, DQ, BS, DQ, RB, DQ, RB>>
\* {"a": 1
UnclosedText == <<LB, DQ, "a", DQ, ":", SP, "1">>

ScanTexts == TextsUpTo(ScanAlphabet, MaxScanLen)
             \cup {QuotedCloseText, EscapedQuoteText, UnclosedText}

DelimiterPairs == {<<LB, RB>>, <<LS, RS>>}

NoTasks == <<>>

InitScan ==
    /\ pc = "scan"
    /\ text \in ScanTexts
    /\ \E p \in DelimiterPairs : open_ch = p[1] /\ close_ch = p[2]
    /\ candidates = <<>>
    /\ raw = <<>>
    /\ parsed = JNull
    /\ tasks_output = NoTasks
    /\ agent_name_keywords = <<>>
    /\ extracted = JNull
    /\ matched_task = 0
    /\ jira_dict = Unused
    /\ jira_enriched = Unused
    /\ env = Unused
    /\ result = Unused /\ saved = Unused /\ artifact_files = Unused /\ reply = Unused
    /\ state = Unused
    /\ returned = Unused

\* one call scan_pairs(open_ch, close_ch) on text
ScanPairs ==
    /\ pc = "scan"
    /\ candidates' = candidates \o scan_pairs(text, open_ch, close_ch)
    /\ pc' = "scanned"
    /\ UNCHANGED <<text, open_ch, close_ch, raw, parsed, tasks_output,
                   agent_name_keywords, extracted, matched_task,
                   jira_dict, jira_enriched, loaderVars, stageVars>>

NextScan == ScanPairs

SpecScan == InitScan /\ [][NextScan]_vars

-----------------------------------------------------------------------------
(* What the scan is required to report, stated without the scanner *)

\* where a reader of s[1..i] stands: outside a string literal ("out"),
\* inside one ("in"), or inside one right after a backslash ("esc")
RECURSIVE LitState(_, _)
LitState(s, i) ==
    IF i = 0 THEN "out"
    ELSE LET p == LitState(s, i - 1) IN
         CASE p = "out" -> IF s[i] = DQ THEN "in" ELSE "out"
           [] p = "in"  -> IF s[i] = BS THEN "esc"
                           ELSE IF s[i] = DQ THEN "out" ELSE "in"
           [] OTHER     -> "in"

\* the character at position i of s lies inside a string literal
InsideLiteral(s, i) == LitState(s, i - 1) # "out"

Delimiters == {LB, RB, LS, RS}

\* s with every delimiter that lies inside a string literal replaced by a letter
Masked(s) ==
    [i \in 1..Len(s) |->
        IF s[i] \in Delimiters /\ InsideLiteral(s, i) THEN "a" ELSE s[i]]

\* occurrences of ch in s[1..n] outside string literals
OutsideCount(s, ch, n) ==
    Cardinality({i \in 1..n : s[i] = ch /\ ~InsideLiteral(s, i)})

\* s is one balanced group of the pair (o, c)
Balanced(s, o, c) ==
    /\ Len(s) >= 2
    /\ s[1] = o
    /\ s[Len(s)] = c
    /\ OutsideCount(s, o, Len(s)) = OutsideCount(s, c, Len(s))
    /\ \A n \in 1..(Len(s) - 1) : OutsideCount(s, o, n) > OutsideCount(s, c, n)

\* nesting depth after s[1..i], a closing delimiter at depth zero not counted
RECURSIVE Depth(_, _, _, _)
Depth(s, o, c, i) ==
    IF i = 0 THEN 0
    ELSE LET d == Depth(s, o, c, i - 1) IN
         IF InsideLiteral(s, i) THEN d
         ELSE IF s[i] = o THEN d + 1
         ELSE IF s[i] = c /\ d > 0 THEN d - 1
         ELSE d

ReturnsToZero(s, o, c) ==
    \E i \in 1..Len(s) : Depth(s, o, c, i - 1) = 1 /\ Depth(s, o, c, i) = 0

\* C5: the scan ignores every delimiter inside a double-quoted string literal,
\* an escaped quote not ending the literal: the spans of a text are those of
\* the text with its quoted delimiters replaced by letters, and {"a": "}"} and
\* {"a": "\"}"} each yield one span, the whole text; the brace scan of
\* _extract_last_json_block_text finds the same spans.
C5_QuotedDelimitersIgnored ==
    pc = "scanned" =>
        /\ LET m == scan_pairs(Masked(text), open_ch, close_ch) IN
            /\ Len(candidates) = Len(m)
            /\ \A k \in 1..Len(m) :
                /\ Len(candidates[k]) = Len(m[k])
                /\ m[k] = Masked(candidates[k])
        /\ (text \in {QuotedCloseText, EscapedQuoteText} /\ open_ch = LB)
              => (candidates = <<text>> /\ brace_spans(text) = <<<<1, Len(text)>>>>)
        /\ open_ch = LB
              => candidates = [k \in 1..Len(brace_spans(text)) |->
                                Slice(text, brace_spans(text)[k][1],
                                      brace_spans(text)[k][2])]

C5_Witness ==
    /\ pc = "scanned"
    /\ text = EscapedQuoteText
    /\ open_ch = LB
    /\ candidates = <<EscapedQuoteText>>
    /\ \E i \in 1..Len(text) : text[i] = RB /\ InsideLiteral(text, i)

\* C6: no span is reported partially closed: every span opens with the opening
\* delimiter, ends with the closing one, counts as many of each outside string
\* literals and has no balanced proper prefix; a text whose depth never
\* returns to zero yields nothing; a closing delimiter at depth zero is ignored.
C6_NoPartialSpan ==
    pc = "scanned" =>
        /\ \A k \in 1..Len(candidates) : Balanced(candidates[k], open_ch, close_ch)
        /\ (candidates = <<>>) <=> ~ReturnsToZero(text, open_ch, close_ch)
        /\ (text # <<>> /\ text[1] = close_ch)
              => candidates = scan_pairs(Tail(text), open_ch, close_ch)

C6_Witness ==
    /\ pc = "scanned"
    /\ Len(candidates) = 1
    /\ text[1] = close_ch
    /\ text[Len(text)] = open_ch
    /\ ~InsideLiteral(text, Len(text))

\* s[i..j] is balanced and lies in no longer balanced substring of s
MaximalBalanced(s, o, c, i, j) ==
    /\ Balanced(Slice(s, i, j), o, c)
    /\ \A a \in 1..i : \A b \in j..Len(s) :
          (a # i \/ b # j) => ~Balanced(Slice(s, a, b), o, c)

\* C7: the scan reports every maximal balanced substring of the text, also one
\* that follows an unmatched opening delimiter or an unpaired double quote.
C7_AllMaximalSpansReported ==
    pc = "scanned" =>
        \A i \in 1..Len(text) : \A j \in i..Len(text) :
            MaximalBalanced(text, open_ch, close_ch, i, j)
                => Slice(text, i, j) \in Range(candidates)

-----------------------------------------------------------------------------
(* _parse_json_from_raw on its own: every text of at most MaxPieces pieces, *)
(* a piece being a JSON body, bare or fenced, or a scrap of prose            *)

MaxPieces == 3

B_obj == <<LB, DQ, "a", DQ, ":", "1", RB>>                    \* {"a":1}
B_empty_obj == <<LB, RB>>                                     \* {}
B_arr == <<LS, "1", RS>>                                      \* [1]
B_empty_arr == <<LS, RS>>                                     \* []
B_nested == <<LB, DQ, "b", DQ, ":", LS, "1", RS, RB>>         \* {"b":[1]}
B_num == <<"4">>                                              \* 4
B_bad == <<LB, "a">>                                          \* {a
B_bad_span == <<LS, "2", RS, "x">>                            \* [2]x

ObjectBodies == {B_obj, B_empty_obj, B_nested}
ArrayBodies == {B_arr, B_empty_arr}
ValidBodies == ObjectBodies \cup ArrayBodies \cup {B_num}
BadBodies == {B_bad, B_bad_span}
Bodies == ValidBodies \cup BadBodies

Fenced(b) == Fence \o b \o Fence
FencedJson(b) == Fence \o JsonTag \o <<NL>> \o b \o <<NL>> \o Fence

ProsePieces == {<<"x">>, <<SP>>, <<DQ>>, <<LB>>}

Pieces == Bodies \cup {Fenced(b) : b \in Bodies}
          \cup {FencedJson(B_obj), FencedJson(B_empty_obj)}
          \cup ProsePieces

RECURSIVE Flatten(_)
Flatten(ps) == IF ps = <<>> THEN <<>> ELSE Head(ps) \o Flatten(Tail(ps))

ParseTexts == {Flatten(ps) : ps \in TextsUpTo(Pieces, MaxPieces)}

InitParse ==
    /\ pc = "parse"
    /\ raw \in ParseTexts
    /\ parsed = JNull
    /\ text = <<>>
    /\ open_ch = LB
    /\ close_ch = RB
    /\ candidates = <<>>
    /\ tasks_output = NoTasks
    /\ agent_name_keywords = <<>>
    /\ extracted = JNull
    /\ matched_task = 0
    /\ jira_dict = Unused
    /\ jira_enriched = Unused
    /\ env = Unused
    /\ result = Unused /\ saved = Unused /\ artifact_files = Unused /\ reply = Unused
    /\ state = Unused
    /\ returned = Unused

\* one call _parse_json_from_raw(raw)
ParseJsonFromRaw ==
    /\ pc = "parse"
    /\ parsed' = parse_json_from_raw(raw)
    /\ pc' = "parsed"
    /\ UNCHANGED <<text, open_ch, close_ch, candidates, raw, tasks_output,
                   agent_name_keywords, extracted, matched_task,
                   jira_dict, jira_enriched, loaderVars, stageVars>>

NextParse == ParseJsonFromRaw

SpecParse == InitParse /\ [][NextParse]_vars

PlainProse == {<<"x">>, <<SP>>}

\* the fenced blocks of r whose content is valid JSON, by their place in
\* finditer_fences(r, 1)
ValidFences(r) ==
    LET fences == finditer_fences(r, 1) IN
    {k \in 1..Len(fences) : JsonLoads(Strip(fences[k])).ok}

\* C1: the strategies run in the order fenced blocks, balanced spans, whole
\* text and stop at the first success: whenever some fenced block of raw holds
\* valid JSON, the value returned is that of the most recent such block,
\* whatever the value (an empty object or array too) and whatever else the
\* text holds.
C1_MostRecentValidFenceReturned ==
    pc = "parsed" =>
        LET fences == finditer_fences(raw, 1) IN
        ValidFences(raw) # {}
            => parsed = JsonLoads(Strip(fences[Max(ValidFences(raw))])).val

\* C2: prose, then a fenced well-formed object, then a fenced block that is
\* not valid JSON: the well-formed object is returned.
C2_MalformedTrailingFenceSkipped ==
    pc = "parsed" =>
        \A p \in PlainProse : \A o \in ObjectBodies : \A b \in BadBodies :
            raw = p \o Fenced(o) \o Fenced(b) => parsed = JsonLoads(o).val

\* C3: with no fenced block, the balanced spans of both scans are tried most
\* recently opened first whatever their delimiter: in a text with a valid
\* top-level array followed later by a valid object, the object is returned.
C3_MostRecentlyOpenedSpanFirst ==
    pc = "parsed" =>
        \A a \in ArrayBodies : \A p \in PlainProse : \A o \in {B_obj, B_empty_obj} :
            raw = a \o p \o o => parsed = JsonLoads(o).val

\* C4: with no fences and two balanced top-level objects, each valid JSON
\* whatever it holds (a nested array too), the second object is returned.
C4_SecondObjectReturned ==
    pc = "parsed" =>
        \A o1 \in ObjectBodies : \A p \in PlainProse : \A o2 \in ObjectBodies :
            raw = o1 \o p \o o2 => parsed = JsonLoads(o2).val

\* C8: the value returned is a JSON object or array (a parse failure is the
\* object that carries the reason), never a scalar.
C8_NeverAScalar ==
    pc = "parsed" => (IsDict(parsed) \/ IsList(parsed))

\* the three strategies are run on r (it is not empty) and no fenced block,
\* no pooled span and not the whole text is valid JSON
AllStrategiesFail(r) ==
    /\ r # <<>>
    /\ ValidFences(r) = {}
    /\ \A k \in 1..Len(pooled_candidates(normalize(r))) :
          ~JsonLoads(pooled_candidates(normalize(r))[k]).ok
    /\ ~JsonLoads(normalize(r)).ok

\* the last n characters of s (s itself when it is shorter)
LastChars(s, n) == Slice(s, Max({1, Len(s) - n + 1}), Len(s))

\* C9: when all three strategies fail, the value returned carries the reason
\* and, as excerpt, the last 400 characters of the input text.
C9_FailureCarriesInputSuffix ==
    (pc = "parsed" /\ AllStrategiesFail(raw)) =>
        /\ IsDict(parsed)
        /\ HasKey(parsed, K_error)
        /\ HasKey(parsed, K_raw_excerpt)
        /\ DictGet(parsed, K_raw_excerpt) = JStr(LastChars(raw, ExcerptLen))

-----------------------------------------------------------------------------
(* _extract_by_agent on its own: every list of at most MaxTasks tasks and   *)
(* the keyword lists of save, of the specification and one in upper case    *)

MaxTasks == 2

L_hld == <<"H", "i", "g", "h", "-", "L", "e", "v", "e", "l", " ", "D", "e", "s", "i", "g", "n", " ", "A", "r", "c", "h", "i", "t", "e", "c", "t">>
L_dd == <<"D", "e", "t", "a", "i", "l", "e", "d", " ", "D", "e", "s", "i", "g", "n", " ", "S", "p", "e", "c", "i", "a", "l", "i", "s", "t">>
L_jira == <<"D", "e", "l", "i", "v", "e", "r", "y", " ", "P", "l", "a", "n", "n", "e", "r", " ", "&", " ", "J", "i", "r", "a", " ", "P", "r", "o", "j", "e", "c", "t", " ", "O", "r", "g", "a", "n", "i", "z", "e", "r">>
L_empty == <<>>

Labels == {L_hld, L_dd, L_jira, L_empty}

KW_hld == <<<<"h", "i", "g", "h", "-", "l", "e", "v", "e", "l", " ", "d", "e", "s", "i", "g", "n">>, <<"h", "l", "d">>>>
KW_dd == <<<<"d", "e", "t", "a", "i", "l", "e", "d", " ", "d", "e", "s", "i", "g", "n">>, <<"d", "d">>>>
KW_jira == <<<<"j", "i", "r", "a">>, <<"d", "e", "l", "i", "v", "e", "r", "y", " ", "p", "l", "a", "n", "n", "e", "r">>, <<"p", "r", "o", "j", "e", "c", "t", " ", "o", "r", "g", "a", "n", "i", "z", "e", "r">>, <<"e", "p", "i", "c">>, <<"s", "t", "o", "r", "y">>>>
KW_jira_spec == <<<<"j", "i", "r", "a">>, <<"d", "e", "l", "i", "v", "e", "r", "y", " ", "p", "l", "a", "n", "n", "e", "r">>>>
KW_upper == <<<<"J", "i", "r", "a">>>>

KeywordLists == {KW_hld, KW_dd, KW_jira, KW_jira_spec, KW_upper}

\* [{"a":1}]
R_list_dict == <<LS>> \o B_obj \o <<RS>>

\* json_dict and raw of a task
Payloads == {
    <<JObj(<<Entry(<<"k">>, JNum(7))>>), B_bad>>,
    <<JNull, B_obj>>,
    <<EmptyDict, R_list_dict>>,
    <<JNull, B_arr>>,
    <<JNull, B_num>>,
    <<JNull, <<>>>> }

Tasks == {[agent |-> l, json_dict |-> p[1], raw |-> p[2]] :
            l \in Labels, p \in Payloads}

InitAgent ==
    /\ pc = "extract"
    /\ tasks_output \in TextsUpTo(Tasks, MaxTasks)
    /\ agent_name_keywords \in KeywordLists
    /\ extracted = JNull
    /\ matched_task = 0
    /\ raw = <<>>
    /\ parsed = JNull
    /\ text = <<>>
    /\ open_ch = LB
    /\ close_ch = RB
    /\ candidates = <<>>
    /\ jira_dict = Unused
    /\ jira_enriched = Unused
    /\ env = Unused
    /\ result = Unused /\ saved = Unused /\ artifact_files = Unused /\ reply = Unused
    /\ state = Unused
    /\ returned = Unused

\* one call _extract_by_agent(tasks_output, agent_name_keywords)
ExtractByAgent ==
    /\ pc = "extract"
    /\ LET r == extract_by_agent(tasks_output, agent_name_keywords) IN
        /\ extracted' = r.ret
        /\ matched_task' = r.at
    /\ pc' = "extracted"
    /\ UNCHANGED <<text, open_ch, close_ch, candidates, raw, parsed,
                   tasks_output, agent_name_keywords,
                   jira_dict, jira_enriched, loaderVars, stageVars>>

NextAgent == ExtractByAgent

SpecAgent == InitAgent /\ [][NextAgent]_vars

\* the first task whose label, lower-cased, contains one of the keywords
\* lower-cased; 0 when there is none
FirstMatchFolded(tasks, kws) ==
    LET hits == {i \in 1..Len(tasks) :
                    \E k \in 1..Len(kws) :
                        Contains(Lower(tasks[i].agent), Lower(kws[k]))}
    IN  IF hits = {} THEN 0 ELSE Min(hits)

\* the first task whose label, lower-cased, contains one of the keywords as
\* it is given; 0 when there is none
FirstMatchAsGiven(tasks, kws) ==
    LET hits == {i \in 1..Len(tasks) :
                    \E k \in 1..Len(kws) :
                        Contains(Lower(tasks[i].agent), kws[k])}
    IN  IF hits = {} THEN 0 ELSE Min(hits)

AgentErrors(r) ==
    {JObj(<<Entry(K_error, Message("Parsed list without dicts"))>>),
     JObj(<<Entry(K_error, Message("Could not parse task JSON")),
            Entry(K_raw_excerpt, JStr(Slice(r, 1, Min({ExcerptLen, Len(r)}))))>>)}

\* the failure values of the parser
IsParserFailure(v) ==
    /\ IsDict(v)
    /\ Get(v, K_error) \in {Message("empty task output"), Message("failed to parse JSON")}

\* ret is one of the mappings the task can yield, p what its raw text parses to
MappingOfTask(ret, task, p) ==
    \/ ret = task.json_dict /\ IsDict(task.json_dict) /\ Truthy(task.json_dict)
    \/ ret = p /\ IsDict(p) /\ ~IsParserFailure(p)
    \/ /\ IsList(p)
       /\ \E i \in 1..Len(p.kids) :
             /\ ret = p.kids[i].v /\ IsDict(ret)
             /\ \A j \in (i + 1)..Len(p.kids) : ~IsDict(p.kids[j].v)
    \/ ret \in AgentErrors(task.raw)
    \/ ret = p /\ IsParserFailure(p)

\* C25: _extract_by_agent returns a mapping for every list of tasks and every
\* keyword list: the empty mapping when no label matches, otherwise the
\* json_dict of the task, a parsed object, the last object of a parsed array
\* or an error mapping; never a list or a scalar.
C25_AlwaysAMapping ==
    pc = "extracted" =>
        /\ IsDict(extracted)
        /\ matched_task = 0 => extracted = EmptyDict
        /\ matched_task > 0 =>
              MappingOfTask(extracted, tasks_output[matched_task],
                            parse_json_from_raw(tasks_output[matched_task].raw))

\* the matched task's raw text parses to a scalar and an error mapping is
\* returned
C25_Witness ==
    /\ pc = "extracted"
    /\ matched_task > 0
    /\ tasks_output[matched_task].json_dict = JNull
    /\ tasks_output[matched_task].raw = B_num
    /\ extracted \in AgentErrors(B_num)

\* the tasks with a non-empty label that contains a keyword
Matching(tasks, kws) ==
    {i \in 1..Len(tasks) :
        tasks[i].agent # <<>> /\ label_matches(Lower(tasks[i].agent), kws)}

\* C26: the result depends only on the first task whose non-empty label
\* matches: it is what that task alone yields, an error mapping included,
\* whatever later matching tasks hold; a non-empty json_dict of that task is
\* returned as it is, whatever its raw text holds; tasks with an empty label
\* are skipped.
C26_FirstMatchCommits ==
    (pc = "extracted" /\ Matching(tasks_output, agent_name_keywords) # {}) =>
        /\ matched_task = Min(Matching(tasks_output, agent_name_keywords))
        /\ extracted = extract_by_agent(<<tasks_output[matched_task]>>,
                                        agent_name_keywords).ret
        /\ Truthy(tasks_output[matched_task].json_dict)
              => extracted = tasks_output[matched_task].json_dict

\* the first matching task cannot be parsed, a later matching task can, and
\* the error of the first is returned
C26_Witness ==
    /\ pc = "extracted"
    /\ Len(tasks_output) = 2
    /\ Matching(tasks_output, agent_name_keywords) = {1, 2}
    /\ tasks_output[1].json_dict = JNull /\ tasks_output[1].raw = B_num
    /\ tasks_output[2].raw = B_obj
    /\ matched_task = 1
    /\ HasKey(extracted, K_error)

-----------------------------------------------------------------------------
(* _ensure_jira_fields on its own: every list of at most MaxJiraTasks tasks, *)
(* the payload either a sparse payload given by the caller or the one save   *)
(* extracts from the tasks                                                   *)

MaxJiraTasks == 2

\* ok ```json\n{"jira_project_key":"ABC","epics_created_count":2}\n```
R_fence_ex == <<"o", "k", SP, BT, BT, BT, "j", "s", "o", "n", NL, LB, DQ, "j", "i", "r", "a", "_", "p", "r", "o", "j", "e", "c", "t", "_", "k", "e", "y", DQ, ":", DQ, "A", "B", "C", DQ, ",", DQ, "e", "p", "i", "c", "s", "_", "c", "r", "e", "a", "t", "e", "d", "_", "c", "o", "u", "n", "t", DQ, ":", "2", RB, NL, BT, BT, BT>>
\* see "implementation_plan": ["step1","step2"] ok
R_plan_prose == <<"s", "e", "e", SP, DQ, "i", "m", "p", "l", "e", "m", "e", "n", "t", "a", "t", "i", "o", "n", "_", "p", "l", "a", "n", DQ, ":", SP, LS, DQ, "s", "t", "e", "p", "1", DQ, ",", DQ, "s", "t", "e", "p", "2", DQ, RS, SP, "o", "k">>
\* "implementation_plan": ["a]b","c"]
R_plan_bracket == <<DQ, "i", "m", "p", "l", "e", "m", "e", "n", "t", "a", "t", "i", "o", "n", "_", "p", "l", "a", "n", DQ, ":", SP, LS, DQ, "a", RS, "b", DQ, ",", DQ, "c", DQ, RS>>
\* "implementation_plan": ["a\"b"]
R_plan_escq == <<DQ, "i", "m", "p", "l", "e", "m", "e", "n", "t", "a", "t", "i", "o", "n", "_", "p", "l", "a", "n", DQ, ":", SP, LS, DQ, "a", BS, DQ, "b", DQ, RS>>
\* "implementation_plan": [ 1, 2 ]
R_plan_nums == <<DQ, "i", "m", "p", "l", "e", "m", "e", "n", "t", "a", "t", "i", "o", "n", "_", "p", "l", "a", "n", DQ, ":", SP, LS, SP, "1", ",", SP, "2", SP, RS>>
\* "implementation_plan": []
R_plan_empty == <<DQ, "i", "m", "p", "l", "e", "m", "e", "n", "t", "a", "t", "i", "o", "n", "_", "p", "l", "a", "n", DQ, ":", SP, LS, RS>>
\* {"jira_project_key":"XYZ"}
R_key_obj == <<LB, DQ, "j", "i", "r", "a", "_", "p", "r", "o", "j", "e", "c", "t", "_", "k", "e", "y", DQ, ":", DQ, "X", "Y", "Z", DQ, RB>>
\* {"jira_project_key":"","z":0}
R_key_blank == <<LB, DQ, "j", "i", "r", "a", "_", "p", "r", "o", "j", "e", "c", "t", "_", "k", "e", "y", DQ, ":", DQ, DQ, ",", DQ, "z", DQ, ":", "0", RB>>
\* x "epics_created_count": 3
R_counts == <<"x", SP, DQ, "e", "p", "i", "c", "s", "_", "c", "r", "e", "a", "t", "e", "d", "_", "c", "o", "u", "n", "t", DQ, ":", SP, "3">>
\* none
R_prose == <<"n", "o", "n", "e">>

EnrichRaws == {R_fence_ex, R_plan_prose, R_plan_bracket, R_plan_escq, R_plan_nums,
               R_plan_empty, R_key_obj, R_key_blank, R_counts, R_prose, <<>>}

L_epic == <<"E", "p", "i", "c", SP, "W", "r", "i", "t", "e", "r">>

EnrichTasks == {[agent |-> L_jira, json_dict |-> JNull, raw |-> r] : r \in EnrichRaws}
               \cup {[agent |-> L_hld, json_dict |-> JNull, raw |-> R_key_obj]}
               \cup {[agent |-> L_epic, json_dict |-> JNull, raw |-> R_counts]}

V_ABC == JStr(<<"A", "B", "C">>)

SparsePayloads == {
    EmptyDict,
    JObj(<<Entry(K_jira_project_key, V_ABC)>>),
    JObj(<<Entry(K_jira_project_key, JStr(<<>>)), Entry(<<"z">>, JNum(1))>>),
    JObj(<<Entry(K_implementation_plan, JArr(<<>>))>>),
    JObj(<<Entry(K_implementation_plan, JArr(<<Entry(<<>>, JStr(<<"p">>))>>))>>),
    JObj(<<Entry(K_implementation_plan_str, JStr(<<"q">>))>>) }

\* the payload save passes: what _extract_by_agent returns for its Jira keywords
SavedPayload(tasks) == extract_by_agent(tasks, KW_jira).ret

InitEnrich ==
    /\ pc = "enrich"
    /\ tasks_output \in TextsUpTo(EnrichTasks, MaxJiraTasks) \ {<<>>}
    /\ jira_dict \in SparsePayloads \cup {SavedPayload(tasks_output)}
    /\ jira_enriched = JNull
    /\ agent_name_keywords = <<>>
    /\ extracted = JNull
    /\ matched_task = 0
    /\ raw = <<>>
    /\ parsed = JNull
    /\ text = <<>>
    /\ open_ch = LB
    /\ close_ch = RB
    /\ candidates = <<>>
    /\ env = Unused
    /\ result = Unused /\ saved = Unused /\ artifact_files = Unused /\ reply = Unused
    /\ state = Unused
    /\ returned = Unused

\* one call _ensure_jira_fields(jira_dict, tasks_output)
EnsureJiraFields ==
    /\ pc = "enrich"
    /\ jira_enriched' = ensure_jira_fields(jira_dict, tasks_output)
    /\ pc' = "enriched"
    /\ UNCHANGED <<text, open_ch, close_ch, candidates, raw, parsed, tasks_output,
                   agent_name_keywords, extracted, matched_task, jira_dict,
                   loaderVars, stageVars>>

NextEnrich == EnsureJiraFields

SpecEnrich == InitEnrich /\ [][NextEnrich]_vars

\* the raw text enrichment works on
FoundRaw == jira_task_raw(tasks_output, 1)

\* what json.loads makes of the last block of the raw text (Fail without a block)
FreshObject ==
    LET block == extract_last_json_block_text(FoundRaw) IN
    IF Truthy(block) THEN JsonLoads(block.s) ELSE Fail

\* the call went past the search of the raw text
EnrichmentRan ==
    pc = "enriched" /\ ~already_good(jira_dict) /\ FoundRaw # <<>>

\* the payload after the merge step
Merged == merge_block(jira_dict, extract_last_json_block_text(FoundRaw))

\* the targeted extraction of the plan was run
TargetedRan == EnrichmentRan /\ ~Truthy(Get(Merged, K_implementation_plan))


\* C11: in the merge of the payload P passed in with the freshly parsed
\* object F, a key present in P with a non-empty value keeps the value of P;
\* a key missing from P or empty in P takes the non-empty value of F; no key
\* of P is dropped.
C11_PresentKeysWin ==
    (EnrichmentRan /\ FreshObject.ok /\ IsDict(FreshObject.val)) =>
        /\ \A i \in 1..Len(jira_dict.kids) :
              /\ HasKey(Merged, jira_dict.kids[i].k)
              /\ HasKey(jira_enriched, jira_dict.kids[i].k)
              /\ Truthy(jira_dict.kids[i].v)
                    => Get(Merged, jira_dict.kids[i].k) = jira_dict.kids[i].v
        /\ \A i \in 1..Len(FreshObject.val.kids) :
              (/\ Truthy(FreshObject.val.kids[i].v)
               /\ ~Truthy(Get(jira_dict, FreshObject.val.kids[i].k)))
                    => Get(Merged, FreshObject.val.kids[i].k) = FreshObject.val.kids[i].v

\* the string literals of a JSON array of strings from the literal at
\* position i: ok and the text between the quotes of each literal, in order
RECURSIVE ArrayLiterals(_, _, _)
ArrayLiterals(t, i, acc) ==
    IF i > Len(t) \/ t[i] # DQ THEN [ok |-> FALSE, items |-> <<>>]
    ELSE LET lit == ParseChars(t, i + 1, <<>>)
             nxt == SkipJsonSpace(t, lit.pos)
         IN  IF ~lit.ok \/ nxt > Len(t) THEN [ok |-> FALSE, items |-> <<>>]
             ELSE IF t[nxt] = RS
                  THEN [ok |-> TRUE, items |-> Append(acc, Slice(t, i + 1, lit.pos - 2))]
             ELSE IF t[nxt] = ","
                  THEN ArrayLiterals(t, SkipJsonSpace(t, nxt + 1),
                                     Append(acc, Slice(t, i + 1, lit.pos - 2)))
             ELSE [ok |-> FALSE, items |-> <<>>]

\* the first place of r where "implementation_plan" : [ stands, as the
\* position after the bracket; 0 when there is none
NamedArrayStart(r) ==
    LET at == {i \in 1..Len(r) :
                  LET p == KeyColonEnd(r, i, K_implementation_plan, TRUE) IN
                  p # 0 /\ p <= Len(r) /\ r[p] = LS}
    IN  IF at = {} THEN 0
        ELSE KeyColonEnd(r, Min(at), K_implementation_plan, TRUE) + 1

\* the named array of r read as a JSON array of string literals
NamedArrayLiterals(r) ==
    IF NamedArrayStart(r) = 0 THEN [ok |-> FALSE, items |-> <<>>]
    ELSE ArrayLiterals(r, SkipJsonSpace(r, NamedArrayStart(r)), <<>>)

\* C12: when the payload has no non-empty implementation_plan and the raw text
\* holds the named array, a JSON array of string literals,
\* implementation_plan becomes the list of the literals, one element each, in
\* order, whatever the literals hold (a closing bracket or an escaped quote
\* too); payload {} and see "implementation_plan": ["step1","step2"] ok give
\* [step1, step2].
C12_EveryLiteralOneElement ==
    (TargetedRan /\ NamedArrayLiterals(FoundRaw).ok) =>
        Get(jira_enriched, K_implementation_plan)
            = StrList(NamedArrayLiterals(FoundRaw).items)

SpanStored(m, sp, en) ==
    /\ (sp.found /\ findall_quoted(sp.inner, 1) = <<>>) =>
           /\ Get(en, K_implementation_plan) = Get(m, K_implementation_plan)
           /\ IF Strip(sp.inner) # <<>>
              THEN Get(en, K_implementation_plan_str) = JStr(Strip(sp.inner))
              ELSE Get(en, K_implementation_plan_str) = Get(m, K_implementation_plan_str)
    /\ \/ Get(en, K_implementation_plan) = Get(m, K_implementation_plan)
       \/ Get(en, K_implementation_plan_str) = Get(m, K_implementation_plan_str)

ExamplePayload ==
    JObj(<<Entry(K_jira_project_key, V_ABC), Entry(K_epics_created_count, JNum(2))>>)

ExampleTask == [agent |-> L_jira, json_dict |-> JNull, raw |-> R_fence_ex]

\* neither the merged block nor the targeted extraction yields a plan
NoPlanIn(ex) == ex.plan_list = <<>> /\ ex.plan_str = JNull
BothTacticsFail ==
    TargetedRan /\ NoPlanIn(regex_extract_implementation_plan(FoundRaw))

\* m the payload after the merge step, en the payload returned
AbsentPlanKept(m, en) ==
    /\ IsDict(en)
    /\ HasKey(en, K_implementation_plan) <=> HasKey(m, K_implementation_plan)
    /\ ~HasKey(m, K_implementation_plan_str) => ~HasKey(en, K_implementation_plan_str)
    /\ \A i \in 1..Len(m.kids) :
          /\ HasKey(en, m.kids[i].k)
          /\ Truthy(m.kids[i].v) => Get(en, m.kids[i].k) = m.kids[i].v
    /\ (HasKey(en, K_error) /\ ~HasKey(m, K_error))
          => \A k \in {K_jira_project_key, K_epics_created_count,
                       K_stories_created_count} : ~Truthy(Get(en, k))

\* C14: when both tactics fail to find the plan, the call returns a payload
\* in which implementation_plan is as absent as before, every key of the
\* merged payload is kept, with its value when it holds one, and an error is
\* added only when no field holds a value; for prose and a json fence with
\* {"jira_project_key":"ABC","epics_created_count":2} under the Jira label the
\* parsed payload is that object and the enriched payload holds ABC and 2, no
\* implementation_plan and no error.
C14_AbsentPlanIsNoError ==
    /\ BothTacticsFail => AbsentPlanKept(Merged, jira_enriched)
    /\ (/\ pc = "enriched"
        /\ tasks_output = <<ExampleTask>>
        /\ jira_dict = SavedPayload(tasks_output)) =>
           /\ jira_dict = ExamplePayload
           /\ BothTacticsFail
           /\ Get(jira_enriched, K_jira_project_key) = V_ABC
           /\ Get(jira_enriched, K_epics_created_count) = JNum(2)
           /\ ~HasKey(jira_enriched, K_implementation_plan)
           /\ ~HasKey(jira_enriched, K_error)

C14_Witness ==
    /\ pc = "enriched"
    /\ tasks_output = <<ExampleTask>>
    /\ jira_dict = ExamplePayload
    /\ jira_enriched = ExamplePayload

-----------------------------------------------------------------------------
(* LoadBundle on its own: the environment is the variable that names the     *)
(* path, the file at the path and GITHUB_USERNAME; the call is one step.     *)

MaxFiles == 2

\* a JSON text of a value whose strings hold no quote and no backslash
RECURSIVE BundleText(_)
RECURSIVE JoinedTexts(_, _, _)
JoinedTexts(kids, i, named) ==
    IF i > Len(kids) THEN <<>>
    ELSE (IF i > 1 THEN <<",">> ELSE <<>>)
         \o (IF named THEN <<DQ>> \o kids[i].k \o <<DQ, ":">> ELSE <<>>)
         \o BundleText(kids[i].v)
         \o JoinedTexts(kids, i + 1, named)

BundleText(v) ==
    CASE v.t = "obj" -> <<LB>> \o JoinedTexts(v.kids, 1, TRUE) \o <<RB>>
      [] v.t = "arr" -> <<LS>> \o JoinedTexts(v.kids, 1, FALSE) \o <<RS>>
      [] v.t = "str" -> <<DQ>> \o v.s \o <<DQ>>
      [] v.t = "num" -> ToDecimal(v.n)
      [] v = JNull -> <<"n", "u", "l", "l">>
      [] v = JTrue -> <<"t", "r", "u", "e">>
      [] OTHER -> <<"f", "a", "l", "s", "e">>

\* a dict of the members that are given: an absent member is the value Absent
Absent == JLit("absent")
DictOf(entries) == JObj(SelectSeq(entries, LAMBDA en : en.v # Absent))
ListOf(items) == JArr([i \in 1..Len(items) |-> Entry(<<>>, items[i])])

\* entries of files: two well-formed ones, and malformed ones
F_plain == DictOf(<<Entry(K_path, JStr(<<"a">>))>>)
F_full ==
    DictOf(<<Entry(K_path, JStr(<<"b">>)), Entry(K_purpose, JStr(<<"p">>)),
             Entry(K_spec, JStr(<<"t">>)), Entry(K_status, JStr(<<"d", "o", "n", "e">>))>>)
F_nopath == DictOf(<<Entry(K_purpose, JStr(<<"p">>))>>)
F_number == JNum(1)
F_badpath == DictOf(<<Entry(K_path, ListOf(<<>>))>>)
FileEntries == {F_plain, F_full, F_nopath, F_number, F_badpath}

FilesValues ==
    {Absent, ListOf(<<>>), JStr(<<"f">>)}
    \cup {ListOf(fl) : fl \in TextsUpTo(FileEntries, MaxFiles) \ {<<>>}}

\* root and assumptions of code_structure
StructureExtras ==
    {<<Absent, Absent>>,
     <<JStr(<<"r">>), ListOf(<<JStr(<<"u">>), JStr(<<"v">>)>>)>>,
     <<Absent, JStr(<<"s">>)>>}

CodeStructures ==
    {Absent, JNull, ListOf(<<JNum(1)>>), JStr(<<"s">>), JNum(5)}
    \cup {DictOf(<<Entry(K_files, fv), Entry(K_root, ex[1]), Entry(K_assumptions, ex[2])>>) :
            fv \in FilesValues, ex \in StructureExtras}

\* the members dd and hld
Designs ==
    {<<Absent, Absent>>,
     <<DictOf(<<Entry(K_detailed_doc_id, JStr(<<"d">>))>>),
       DictOf(<<Entry(K_hl_doc_id, JStr(<<"h">>))>>)>>,
     <<ListOf(<<JNum(1)>>), JNull>>}

PlanOf(v) == DictOf(<<Entry(K_jira_project_key, JStr(<<"K">>)), Entry(K_implementation_plan, v)>>)
Jiras ==
    {Absent, JNull, PlanOf(ListOf(<<>>)), PlanOf(ListOf(<<JStr(<<"s">>), JStr(<<"t">>)>>)),
     ListOf(<<JNum(1)>>), PlanOf(JNum(5))}

Bundle(app, cs, des, jira) ==
    DictOf(<<Entry(K_app_name, app), Entry(K_code_structure, cs),
             Entry(K_dd, des[1]), Entry(K_hld, des[2]), Entry(K_jira, jira)>>)

\* bundles whose app_name is a non-empty string, and bundles where it is not
NamedBundles ==
    {Bundle(JStr(<<"x">>), cs, des, jira) :
        cs \in CodeStructures, des \in Designs, jira \in Jiras}
UnnamedBundles ==
    {Bundle(app, cs, <<Absent, Absent>>, Absent) :
        app \in {Absent, JNull, JStr(<<>>), ListOf(<<JNum(1)>>)},
        cs \in {Absent, ListOf(<<JNum(1)>>),
                DictOf(<<Entry(K_files, ListOf(<<F_plain>>))>>)}}
NonDictBundles == {JNull, JNum(5), JStr(<<"s">>), ListOf(<<JNum(1)>>), ListOf(<<>>)}
BundleValues == NamedBundles \cup UnnamedBundles \cup NonDictBundles

\* texts that json.loads rejects
BadTexts ==
    {<<>>, <<LB, "a">>, <<LB, DQ, "a", "p", "p", "_", "n", "a", "m", "e", DQ, ":", DQ, "x", DQ>>,
     <<LB, RB, "x">>, <<"N", "a", "N", "x">>}

Owners == {JNull, JStr(<<"u">>)}

LoadEnvs ==
    {[path_set |-> ps, file |-> "missing", content |-> <<>>, owner |-> ow] :
        ps \in BOOLEAN, ow \in Owners}
    \cup {[path_set |-> TRUE, file |-> "undecodable", content |-> <<>>, owner |-> ow] :
        ow \in Owners}
    \cup {[path_set |-> TRUE, file |-> "text", content |-> t, owner |-> ow] :
        t \in BadTexts \cup {BundleText(v) : v \in BundleValues}, ow \in Owners}

InitLoad ==
    /\ pc = "load"
    /\ env \in LoadEnvs
    /\ returned = Unused
    /\ state = Unused
    /\ text = Unused /\ open_ch = Unused /\ close_ch = Unused
    /\ candidates = Unused /\ raw = Unused /\ parsed = Unused
    /\ tasks_output = Unused /\ agent_name_keywords = Unused
    /\ extracted = Unused /\ matched_task = Unused
    /\ jira_dict = Unused /\ jira_enriched = Unused
    /\ result = Unused /\ saved = Unused /\ artifact_files = Unused /\ reply = Unused

\* one call of LoadBundle()
LoadBundle ==
    /\ pc = "load"
    /\ returned' = load_bundle(env)
    /\ pc' = "loaded"
    /\ UNCHANGED <<text, open_ch, close_ch, candidates, raw, parsed, tasks_output,
                   agent_name_keywords, extracted, matched_task, jira_dict,
                   jira_enriched, env, state, stageVars>>

NextLoad == LoadBundle

SpecLoad == InitLoad /\ [][NextLoad]_vars

\* the bundle the file holds, when the file holds JSON
Loaded == load_bundle_from_file(env)

\* the call failed: an exception ended the body of the try
LoadFailed == pc = "loaded" /\ (returned.caught # "none" \/ returned.raised # "none")

\* the state returned holds the placeholders and one error of LoadBundle
PlaceholderState(st) ==
    /\ st.app_name = UnknownApp
    /\ st.repo.name = UnknownRepo
    /\ st.code_structure.files = <<>>
    /\ Len(st.errors) = 1
    /\ st.errors[1].origin = OriginLoadBundle
    /\ st.errors[1].retryable = FALSE

\* C15: LoadBundle never raises; whatever exception ends the reading, the
\* parsing, the validation or the conversion of the bundle, it returns a
\* state with app_name UNKNOWN_APP, repo name UNKNOWN_REPO, no files and
\* exactly one error, of origin LoadBundle and not retryable.
C15_NeverRaises ==
    pc = "loaded" =>
        /\ returned.raised = "none"
        /\ LoadFailed => PlaceholderState(returned.state)

\* the file holds JSON that passes _validate_incoming, ld what the load gave
PassesValidation(ld) == ld.exc = "none" /\ validate_incoming(ld.val) = "none"

\* a malformed file entry ended the conversion and the call returned
C15_Witness ==
    /\ pc = "loaded"
    /\ returned.caught \in {"KeyError", "TypeError", "AttributeError"}
    /\ PassesValidation(Loaded)
    /\ PlaceholderState(returned.state)

\* the file holds JSON, ld what the load gave
ParsesAsJson(ld) == env.path_set /\ env.file = "text" /\ ld.exc = "none"

\* app_name is absent or empty
LacksAppName(b) == ~IsDict(b) \/ ~Truthy(Get(b, K_app_name))

\* code_structure.files of the bundle; null when the bundle or its
\* code_structure is no dict, and when the member is absent
FilesOf(b) ==
    IF IsDict(b) /\ IsDict(Get(b, K_code_structure))
    THEN Get(Get(b, K_code_structure), K_files)
    ELSE JNull

\* code_structure.files is absent, empty or not a list
LacksFiles(b) == ~IsList(FilesOf(b)) \/ FilesOf(b).kids = <<>>

\* the file holds JSON that lacks a required field, ld what the load gave
LacksRequiredField(ld) ==
    ParsesAsJson(ld) /\ (LacksAppName(ld.val) \/ LacksFiles(ld.val))

\* C16: when the source parses as JSON and lacks a required field (app_name
\* absent or empty, or code_structure.files absent, empty or not a list,
\* whatever the JSON type of the bundle or of code_structure), the state
\* returned has exactly one error, of category validation, and app_name
\* UNKNOWN_APP.
C16_MissingFieldIsValidation ==
    (pc = "loaded" /\ LacksRequiredField(Loaded)) =>
        /\ returned.raised = "none"
        /\ Len(returned.state.errors) = 1
        /\ returned.state.errors[1].category = "validation"
        /\ returned.state.app_name = UnknownApp

\* C17: when the source is missing (no file at the configured path, or the
\* variable that supplies the path is not set), LoadBundle does not raise and
\* the state returned has exactly one error, of category io.
C17_MissingSourceIsIO ==
    (pc = "loaded" /\ (~env.path_set \/ env.file = "missing")) =>
        /\ returned.raised = "none"
        /\ Len(returned.state.errors) = 1
        /\ returned.state.errors[1].category = "io"

\* the file exists and its content is not valid JSON
InvalidJsonFile ==
    /\ env.path_set
    /\ \/ env.file = "undecodable"
       \/ env.file = "text" /\ ~JsonLoads(env.content).ok

\* C18: when the file exists and its content is not valid JSON, the single
\* error returned has category json, never validation or unknown.
C18_InvalidJsonIsJSON ==
    (pc = "loaded" /\ InvalidJsonFile) =>
        /\ Len(returned.state.errors) = 1
        /\ returned.state.errors[1].category = "json"

\* a well-formed entry of files
ValidFileEntry(f) ==
    /\ IsDict(f)
    /\ IsStr(Get(f, K_path))
    /\ HasKey(f, K_purpose) => IsStr(DictGet(f, K_purpose))
    /\ IsOptionalStr(Get(f, K_spec))

\* a member that is absent, null or a dict
OptionalDict(v) == v = JNull \/ IsDict(v)

\* a valid bundle: a non-empty app_name, a non-empty list of well-formed
\* files, and every other member absent or of its declared type
ValidBundle(b) ==
    /\ IsDict(b)
    /\ IsStr(Get(b, K_app_name)) /\ Get(b, K_app_name).s # <<>>
    /\ IsDict(Get(b, K_code_structure))
    /\ IsList(FilesOf(b)) /\ FilesOf(b).kids # <<>>
    /\ \A i \in 1..Len(FilesOf(b).kids) : ValidFileEntry(FilesOf(b).kids[i].v)
    /\ HasKey(Get(b, K_code_structure), K_root)
          => IsStr(DictGet(Get(b, K_code_structure), K_root))
    /\ HasKey(Get(b, K_code_structure), K_assumptions)
          => IsStrList(DictGet(Get(b, K_code_structure), K_assumptions))
    /\ OptionalDict(Get(b, K_dd)) /\ IsOptionalStr(Get(Get(b, K_dd), K_detailed_doc_id))
    /\ OptionalDict(Get(b, K_hld)) /\ IsOptionalStr(Get(Get(b, K_hld), K_hl_doc_id))
    /\ OptionalDict(Get(b, K_jira))
    /\ Get(Get(b, K_jira), K_implementation_plan) = JNull
          \/ IsList(Get(Get(b, K_jira), K_implementation_plan))

\* code_structure.assumptions of a valid bundle
BundleAssumptions(b) ==
    IF HasKey(Get(b, K_code_structure), K_assumptions)
    THEN Texts(DictGet(Get(b, K_code_structure), K_assumptions))
    ELSE <<>>

\* the items of jira.implementation_plan of a valid bundle
BundlePlan(b) == Get(Get(b, K_jira), K_implementation_plan).kids

\* the state returned is the one the valid bundle b stands for
StateOfBundle(st, b) ==
    /\ st.errors = <<>>
    /\ st.app_name = Get(b, K_app_name).s
    /\ st.repo.name = Get(b, K_app_name).s
    /\ Len(st.code_structure.files) = Len(FilesOf(b).kids)
    /\ \A i \in 1..Len(FilesOf(b).kids) :
          /\ st.code_structure.files[i].path = Get(FilesOf(b).kids[i].v, K_path).s
          /\ st.code_structure.files[i].status = "pending"
    /\ st.pending_files = <<>>
    /\ st.completed_files = <<>>
    /\ st.code_structure.assumptions = BundleAssumptions(b)
    /\ st.assumptions =
          IF BundlePlan(b) # <<>>
          THEN Append(BundleAssumptions(b), PlanNote \o ToDecimal(Len(BundlePlan(b))))
          ELSE BundleAssumptions(b)

\* r, what the call ended with, is as stated when ld, what the load gave, is
\* a valid bundle
ConvertedWhenValid(r, ld) ==
    (ParsesAsJson(ld) /\ ValidBundle(ld.val)) =>
        r.raised = "none" /\ StateOfBundle(r.state, ld.val)

\* C19: for every valid bundle the state returned has no errors, app_name and
\* repo name of the bundle, one FileSpec per input file in input order, each
\* pending whatever the entry declares, no pending and no completed files,
\* and the assumptions of code_structure followed by the one note
\* Jira plan items: N exactly when jira.implementation_plan is non-empty;
\* the assumptions of code_structure do not gain the note.
C19_ValidBundleConverted ==
    pc = "loaded" => ConvertedWhenValid(returned, Loaded)

\* ld, what the load gave, is a valid bundle with a plan of two items,
\* assumptions of its own and a file that declares a status
RichValidBundle(ld) ==
    /\ ParsesAsJson(ld) /\ ValidBundle(ld.val)
    /\ Len(BundlePlan(ld.val)) = 2
    /\ BundleAssumptions(ld.val) # <<>>
    /\ \E i \in 1..Len(FilesOf(ld.val).kids) : HasKey(FilesOf(ld.val).kids[i].v, K_status)

\* a valid bundle with a plan of two items, assumptions of its own and a
\* file that declares the status done was converted
C19_Witness ==
    /\ pc = "loaded"
    /\ RichValidBundle(Loaded)
    /\ Len(returned.state.assumptions) = Len(returned.state.code_structure.assumptions) + 1

-----------------------------------------------------------------------------
(* repository_creation/nodes/load_bundle.py: the node LoadBundle(state).     *)
(* Line 9, the import of BuildState, RepoRef, DesignState,                   *)
(* CodeStructureState, FileSpec and ToolError, is a comment: the module      *)
(* binds none of these names, and a step that reads one raises NameError.    *)
(* _validate_incoming of the node is the text of validate_incoming above.    *)

MaxErrors == 2

\* no state is returned
NoState == <<>>

\* json.loads(...) with JSONDecodeError re-raised as ValueError, p what
\* JsonLoads gave
node_loads_result(p) == IF p.ok THEN Return(p.val) ELSE Raise("ValueError")

\* _load_bundle_from_env_or_file; e the environment: bundle_json the value
\* of BUNDLE_JSON (null when unset), file what stands at RESULT_JSON_PATH or
\* at the default path, content the text of the file
load_bundle_from_env_or_file(e) ==
    IF Truthy(e.bundle_json) THEN node_loads_result(JsonLoads(e.bundle_json.s))
    ELSE IF e.file = "missing" THEN Raise("FileNotFoundError")
    ELSE IF e.file = "undecodable" THEN Raise("UnicodeDecodeError")
    ELSE node_loads_result(JsonLoads(e.content))

\* the body of the try after the load: a bundle that passes
\* _validate_incoming has a file, and _files_to_specs reads FileSpec
node_try_body(loaded, invalid) ==
    IF Raised(loaded) THEN loaded
    ELSE IF invalid # "none" THEN Raise(invalid)
    ELSE Raise("NameError")

\* the invalidity of what the load returned
node_validate(loaded) ==
    IF Raised(loaded) THEN "none" ELSE validate_incoming(loaded.val)

\* except Exception as e: the handler reads BuildState
node_except(r) ==
    IF ~Raised(r) THEN [raised |-> "none", caught |-> "none", state |-> r.val]
    ELSE [raised |-> "NameError", caught |-> r.exc, state |-> NoState]

\* LoadBundle(state): the incoming state st is not read
node_load_bundle(st, e) ==
    node_except(node_try_body(load_bundle_from_env_or_file(e),
                              node_validate(load_bundle_from_env_or_file(e))))

\* errors of earlier stages
E_tool ==
    [origin |-> <<"C", "r", "e", "a", "t", "e", "R", "e", "p", "o">>,
     category |-> "tool", retryable |-> TRUE, context |-> <<>>]
E_config ==
    [origin |-> <<"I", "n", "i", "t">>,
     category |-> "config", retryable |-> FALSE, context |-> <<>>]
PriorErrors == {E_tool, E_config}

\* incoming states: a state of the application x with the errors of earlier
\* stages
InputStates ==
    {BuildState(<<"x">>,
                [owner |-> UnknownOwner, name |-> <<"x">>,
                 default_branch |-> MainBranch, created |-> FALSE],
                [dd_id |-> JNull, hld_id |-> JNull],
                [root |-> <<"x">>, files |-> <<>>, assumptions |-> <<>>],
                <<>>, errs) : errs \in TextsUpTo(PriorErrors, MaxErrors)}

B_good == Bundle(JStr(<<"x">>), DictOf(<<Entry(K_files, ListOf(<<F_plain>>))>>),
                 <<Absent, Absent>>, Absent)
B_unnamed == Bundle(Absent, DictOf(<<Entry(K_files, ListOf(<<F_plain>>))>>),
                    <<Absent, Absent>>, Absent)

NodeEnvs ==
    {[bundle_json |-> bj, file |-> f[1], content |-> f[2], owner |-> JNull] :
        bj \in {JNull, JStr(<<>>), JStr(<<LB, "a">>), JStr(BundleText(B_good)),
                JStr(BundleText(B_unnamed))},
        f \in {<<"missing", <<>>>>, <<"undecodable", <<>>>>, <<"text", <<LB, "a">>>>,
               <<"text", BundleText(B_good)>>}}

InitNode ==
    /\ pc = "node"
    /\ env \in NodeEnvs
    /\ state \in InputStates
    /\ returned = Unused
    /\ text = Unused /\ open_ch = Unused /\ close_ch = Unused
    /\ candidates = Unused /\ raw = Unused /\ parsed = Unused
    /\ tasks_output = Unused /\ agent_name_keywords = Unused
    /\ extracted = Unused /\ matched_task = Unused
    /\ jira_dict = Unused /\ jira_enriched = Unused
    /\ result = Unused /\ saved = Unused /\ artifact_files = Unused /\ reply = Unused

\* one call of the node LoadBundle(state)
NodeLoadBundle ==
    /\ pc = "node"
    /\ returned' = node_load_bundle(state, env)
    /\ pc' = "node_done"
    /\ UNCHANGED <<text, open_ch, close_ch, candidates, raw, parsed, tasks_output,
                   agent_name_keywords, extracted, matched_task, jira_dict,
                   jira_enriched, env, state, stageVars>>

NextNode == NodeLoadBundle

SpecNode == InitNode /\ [][NextNode]_vars

\* the stage failed: an exception ended the body of its try
StageFailed == pc = "node_done" /\ returned.caught # "none"

\* C20: when the node LoadBundle(state) fails it returns a state that holds
\* every error of the incoming state, in order, and exactly one more error at
\* the end, whatever errors the incoming state carries.
C20_FailureKeepsHistory ==
    StageFailed =>
        /\ returned.raised = "none"
        /\ Len(returned.state.errors) = Len(state.errors) + 1
        /\ SubSeq(returned.state.errors, 1, Len(state.errors)) = state.errors

\* the payload is the one save extracted and passes to _ensure_jira_fields,
\* and the enrichment read the raw text of a task
SavedPayloadEnriched ==
    /\ pc = "enriched"
    /\ jira_dict = SavedPayload(tasks_output)
    /\ Truthy(jira_dict)
    /\ ~already_good(jira_dict)
    /\ jira_task_index(tasks_output, 1) # 0

\* C28: the raw text that enriches the payload is the raw text of the task
\* whose payload _extract_by_agent returned for the Jira keywords of save.
C28_EnrichmentReadsSelectedTask ==
    SavedPayloadEnriched =>
        jira_task_index(tasks_output, 1) = extract_by_agent(tasks_output, KW_jira).at

\* jd, enriched once more with the same tasks, is jd
FixedPoint(jd, tasks) == ensure_jira_fields(jd, tasks) = jd

-----------------------------------------------------------------------------
(* PlanningMetadataSaver.save.  The result handed to save is                *)
(* [status, config, crew]: status and config as result.get yields them      *)
(* (JNull for a missing key), crew the crew output (NoCrew for None).  A    *)
(* crew output is [tasks_output, task_like, agent, json_dict, raw];         *)
(* task_like says that it carries one of the attributes of a task itself.   *)

K_config == <<"c", "o", "n", "f", "i", "g">>
K_last_updated == <<"l", "a", "s", "t", "_", "u", "p", "d", "a", "t", "e", "d">>
K_folder_id == <<"f", "o", "l", "d", "e", "r", "_", "i", "d">>
K_folder_name == <<"f", "o", "l", "d", "e", "r", "_", "n", "a", "m", "e">>
K_hl_doc_name == <<"h", "l", "_", "d", "o", "c", "_", "n", "a", "m", "e">>
K_detailed_doc_name == <<"d", "e", "t", "a", "i", "l", "e", "d", "_", "d", "o", "c", "_", "n", "a", "m", "e">>
K_tree == <<"t", "r", "e", "e">>
K_raw_content == <<"r", "a", "w", "_", "c", "o", "n", "t", "e", "n", "t">>
K_raw_source == <<"r", "a", "w", "_", "s", "o", "u", "r", "c", "e">>

KW_cs == <<<<"c", "o", "d", "e", SP, "s", "t", "r", "u", "c", "t", "u", "r", "e">>, <<"a", "r", "c", "h", "i", "t", "e", "c", "t">>, <<"s", "t", "r", "u", "c", "t", "u", "r", "e">>>>

RawContentLen == 1000

NoCrew == <<>>

\* _extract_tasks_output
extract_tasks_output(crew) ==
    IF crew = NoCrew THEN <<>>
    ELSE IF crew.tasks_output # <<>> THEN crew.tasks_output
    ELSE IF crew.task_like
         THEN <<[agent |-> crew.agent, json_dict |-> crew.json_dict, raw |-> crew.raw]>>
    ELSE <<>>

\* {key: d.get(key) for the keys named}, in the order named
Picked(d, keys) == [i \in 1..Len(keys) |-> Entry(keys[i], Get(d, keys[i]))]

\* any(k in d for k in keys)
AnyKey(d, keys) == \E i \in 1..Len(keys) : HasKey(d, keys[i])

\* the entries save adds to metadata for the high-level design payload
hld_metadata(hld) ==
    IF Truthy(hld)
    THEN <<Entry(K_hld, JObj(Picked(hld,
              <<K_folder_id, K_folder_name, K_hl_doc_id, K_hl_doc_name, K_error>>)))>>
    ELSE <<>>

\* the entries save adds for the detailed design payload
dd_metadata(dd) ==
    IF Truthy(dd) /\ AnyKey(dd, <<K_detailed_doc_id, K_error>>)
    THEN <<Entry(K_dd, JObj(Picked(dd,
              <<K_detailed_doc_id, K_detailed_doc_name, K_folder_id, K_error>>)))>>
    ELSE <<>>

\* tree.replace("\\n", "\n"): backslash and n become a line break
UnescapeBreaks(s) == Replace(s, <<BS, "n">>, <<NL>>)

\* the tree as the first branch stores it
stored_tree(v) == IF IsStr(v) THEN JStr(UnescapeBreaks(v.s)) ELSE v

\* code_structure as the first branch builds it: the truthy fields only
cleaned_code_structure(cs) ==
    LET keys == <<K_app_name, K_root, K_tree, K_files, K_assumptions, K_error>>
        kept == SelectSeq(keys, LAMBDA k : Truthy(Get(cs, k)))
    IN  [i \in 1..Len(kept) |->
            Entry(kept[i], IF kept[i] = K_tree THEN stored_tree(DictGet(cs, K_tree))
                           ELSE DictGet(cs, kept[i]))]

StructureKeys == <<K_app_name, K_root, K_tree, K_files, K_assumptions>>

\* d.get(key, [])
GetOrEmptyList(d, k) == IF HasKey(d, k) THEN DictGet(d, k) ELSE JArr(<<>>)

\* the result both fallbacks build from a parsed dict
structure_result(p) ==
    JObj(<<Entry(K_app_name, Get(p, K_app_name)),
           Entry(K_root, Get(p, K_root)),
           Entry(K_tree, Get(p, K_tree)),
           Entry(K_files, GetOrEmptyList(p, K_files)),
           Entry(K_assumptions, GetOrEmptyList(p, K_assumptions))>>)

\* if result.get("tree"): result["tree"] = result["tree"].replace(...) ;
\* return result.  A truthy tree that is no string has no replace.
clean_tree(res) ==
    LET tree == Get(res, K_tree) IN
    IF ~Truthy(tree) THEN Return(res)
    ELSE IF IsStr(tree)
         THEN Return(JObj(DictSet(res.kids, K_tree, JStr(UnescapeBreaks(tree.s)))))
    ELSE Raise("AttributeError")

\* the regular expression of _extract_clean_json_from_raw tried after an
\* opening brace, from position j: the position of the closing brace of the
\* match, 0 when there is no match.  Groups nest one level deep.
RECURSIVE brace_regex_end(_, _)
brace_regex_end(s, j) ==
    LET a == NextOf(s, j, {LB, RB}) IN
    IF a > Len(s) THEN 0
    ELSE IF s[a] = RB THEN a
    ELSE LET b == NextOf(s, a + 1, {LB, RB}) IN
         IF b > Len(s) \/ s[b] # RB THEN 0 ELSE brace_regex_end(s, b + 1)

\* re.findall of that expression from position i: the matches from the
\* left, not overlapping
RECURSIVE findall_objects(_, _)
findall_objects(s, i) ==
    LET a == NextOf(s, i, {LB}) IN
    IF a > Len(s) THEN <<>>
    ELSE LET e == brace_regex_end(s, a + 1) IN
         IF e = 0 THEN findall_objects(s, a + 1)
         ELSE <<Slice(s, a, e)>> \o findall_objects(s, e + 1)

\* the loop over reversed(matches), from the k-th match down
RECURSIVE clean_loop(_, _)
clean_loop(matches, k) ==
    IF k = 0 THEN Return(JNull)
    ELSE LET p == JsonLoads(Strip(matches[k])) IN
         IF p.ok /\ IsDict(p.val) /\ AnyKey(p.val, StructureKeys)
         THEN clean_tree(structure_result(p.val))
         ELSE clean_loop(matches, k - 1)

\* _extract_clean_json_from_raw
extract_clean_json_from_raw(r) ==
    LET matches == findall_objects(r, 1) IN clean_loop(matches, Len(matches))

\* the dict returned when the raw text names app_name and tree and holds no
\* object that parses
raw_fallback(r) ==
    JObj(<<Entry(K_error, Message("Could not parse JSON, saved raw content")),
           Entry(K_raw_content, JStr(Slice(r, 1, Min({RawContentLen, Len(r)})))),
           Entry(K_raw_source, Message("fallback_raw"))>>)

\* any(indicator in raw.lower() for indicator in ...)
has_indicator(r) == \E i \in 1..Len(StructureKeys) : Contains(Lower(r), StructureKeys[i])

\* what the second test of the loop returns for a raw text that names
\* app_name and tree
clean_or_fallback(r, cleaned) ==
    IF Raised(cleaned) \/ Truthy(cleaned.val) THEN cleaned ELSE Return(raw_fallback(r))

\* isinstance(parsed, dict) and any(k in parsed for k in ...)
has_structure(p) == IsDict(p) /\ AnyKey(p, StructureKeys)

RECURSIVE raw_structure_loop(_, _)
\* the second test of the loop for the i-th task, then the tasks after it
second_test(tasks, i) ==
    IF Contains(tasks[i].raw, K_app_name) /\ Contains(tasks[i].raw, K_tree)
    THEN clean_or_fallback(tasks[i].raw, extract_clean_json_from_raw(tasks[i].raw))
    ELSE raw_structure_loop(tasks, i + 1)

\* the first test of the loop for the i-th task, p what _parse_json_from_raw
\* made of its raw text
first_test(tasks, i, p) ==
    IF has_structure(p) THEN clean_tree(structure_result(p)) ELSE second_test(tasks, i)

\* the loop of _extract_code_structure_from_raw from the i-th task: the
\* value returned (JNull for None) or the exception raised
raw_structure_loop(tasks, i) ==
    IF i > Len(tasks) THEN Return(JNull)
    ELSE IF has_indicator(tasks[i].raw)
         THEN first_test(tasks, i, parse_json_from_raw(tasks[i].raw))
    ELSE second_test(tasks, i)

extract_code_structure_from_raw(tasks) == raw_structure_loop(tasks, 1)

\* the entry of the code structure found in the raw texts
raw_structure_entries(cs_raw) ==
    IF Raised(cs_raw) THEN cs_raw
    ELSE IF Truthy(cs_raw.val) THEN Return(<<Entry(K_code_structure, cs_raw.val)>>)
    ELSE Return(<<>>)

\* the entry of the code structure of the payload selected by label
cleaned_entries(cleaned) ==
    IF cleaned # <<>> THEN <<Entry(K_code_structure, JObj(cleaned))>> ELSE <<>>

\* the entries save adds for the code structure: from the payload selected
\* by label when it has one of the fields, else from the raw texts
code_structure_metadata(cs, tasks) ==
    IF Truthy(cs) /\ AnyKey(cs, <<K_root, K_tree, K_files, K_assumptions, K_error>>)
    THEN Return(cleaned_entries(cleaned_code_structure(cs)))
    ELSE raw_structure_entries(extract_code_structure_from_raw(tasks))

JiraKeys == <<K_jira_project_key, K_implementation_plan, K_implementation_plan_str,
              K_epics_created_count, K_stories_created_count, K_error>>

\* the jira sub-object: jira_enriched.get for each key, [] for a missing plan
jira_fields(en) ==
    [i \in 1..Len(JiraKeys) |->
        Entry(JiraKeys[i], IF JiraKeys[i] = K_implementation_plan
                           THEN GetOrEmptyList(en, K_implementation_plan)
                           ELSE Get(en, JiraKeys[i]))]

\* the jira entry, en the enriched payload
jira_entries(en) ==
    IF AnyKey(en, JiraKeys) THEN <<Entry(K_jira, JObj(jira_fields(en)))>> ELSE <<>>

\* the entries save adds for the Jira payload
jira_metadata(jira, tasks) ==
    IF Truthy(jira) THEN jira_entries(ensure_jira_fields(jira, tasks)) ELSE <<>>

(* json.dump(metadata, f, indent=2, ensure_ascii=False) *)

\* the escape json.dump writes for a character of a string
Escaped(ch) ==
    CASE ch = DQ -> <<BS, DQ>>
      [] ch = BS -> <<BS, BS>>
      [] ch = NL -> <<BS, "n">>
      [] ch = "\t" -> <<BS, "t">>
      [] ch = "\r" -> <<BS, "r">>
      [] ch = "\f" -> <<BS, "f">>
      [] ch = "BACKSPACE" -> <<BS, "b">>
      [] OTHER -> <<ch>>

\* the escapes of the characters of s, one after the other
RECURSIVE EscapedText(_)
EscapedText(s) ==
    IF s = <<>> THEN <<>>
    ELSE IF Len(s) = 1 THEN Escaped(s[1])
    ELSE EscapedText(SubSeq(s, 1, Len(s) \div 2))
         \o EscapedText(SubSeq(s, (Len(s) \div 2) + 1, Len(s)))

Quoted(s) == <<DQ>> \o EscapedText(s) \o <<DQ>>

\* a line break and the indentation of the given level
Indent(level) == <<NL>> \o [i \in 1..(2 * level) |-> SP]

\* str(n) of an integer
IntText(n) == IF n < 0 THEN <<"-">> \o ToDecimal(0 - n) ELSE ToDecimal(n)

\* null, true and false as written
LitText(v) ==
    CASE v = JTrue -> <<"t", "r", "u", "e">>
      [] v = JFalse -> <<"f", "a", "l", "s", "e">>
      [] OTHER -> <<"n", "u", "l", "l">>

RECURSIVE Dumped(_, _)
RECURSIVE DumpedItems(_, _, _, _)
\* the items of a container from the i-th, each on a line of its own
DumpedItems(kids, i, named, level) ==
    IF i > Len(kids) THEN <<>>
    ELSE (IF i > 1 THEN <<",">> ELSE <<>>) \o Indent(level)
         \o (IF named THEN Quoted(kids[i].k) \o <<":", SP>> ELSE <<>>)
         \o Dumped(kids[i].v, level) \o DumpedItems(kids, i + 1, named, level)

\* the text json.dump writes for a value at the given nesting level
Dumped(v, level) ==
    CASE v.t = "str" -> Quoted(v.s)
      [] v.t = "num" -> IntText(v.n)
      [] v.t = "lit" -> LitText(v)
      [] v.t = "arr" -> IF v.kids = <<>> THEN <<LS, RS>>
                        ELSE <<LS>> \o DumpedItems(v.kids, 1, FALSE, level + 1)
                             \o Indent(level) \o <<RS>>
      [] v.t = "obj" -> IF v.kids = <<>> THEN <<LB, RB>>
                        ELSE <<LB>> \o DumpedItems(v.kids, 1, TRUE, level + 1)
                             \o Indent(level) \o <<RB>>

json_dump(v) == Dumped(v, 0)

(* save: what the call leaves behind.  raised names the exception that      *)
(* escapes the call ("none" when it returns), written says whether the file *)
(* at file_path was written, file is its text and metadata the dict dumped. *)

NoDocument == JNull

SaveFailed(kind) == [raised |-> kind, written |-> FALSE, file |-> <<>>, metadata |-> NoDocument]
SaveDone(metadata) ==
    [raised |-> "none", written |-> TRUE, file |-> json_dump(metadata), metadata |-> metadata]

\* status, app_name and last_updated, the first entries of metadata
basics(res, now) ==
    <<Entry(K_status, res.status),
      Entry(K_app_name, Get(OrEmptyDict(res.config), K_app_name)),
      Entry(K_last_updated, JStr(now))>>

\* the payloads of the four roles, each with the task it was taken from
role_payloads(tasks) ==
    [hld |-> extract_by_agent(tasks, KW_hld),
     dd |-> extract_by_agent(tasks, KW_dd),
     cs |-> extract_by_agent(tasks, KW_cs),
     jira |-> extract_by_agent(tasks, KW_jira)]

\* the sub-objects up to the first that records an error
RECURSIVE until_error(_)
until_error(parts) ==
    IF parts = <<>> THEN <<>>
    ELSE IF Truthy(Get(Head(parts).v, K_error)) THEN <<Head(parts)>>
    ELSE <<Head(parts)>> \o until_error(Tail(parts))

\* the document stops at the first sub-object that records an error
build_and_dump_until_error(res, now, tasks, roles, cs_part) ==
    IF Raised(cs_part) THEN SaveFailed(cs_part.exc)
    ELSE SaveDone(JObj(basics(res, now)
                       \o until_error(hld_metadata(roles.hld.ret)
                                      \o dd_metadata(roles.dd.ret) \o cs_part.val
                                      \o jira_metadata(roles.jira.ret, tasks))))

\* steps 4 and 5 of save, given the payloads and the code structure entries
build_and_dump(res, now, tasks, roles, cs_part) ==
    IF Raised(cs_part) THEN SaveFailed(cs_part.exc)
    ELSE SaveDone(JObj(basics(res, now) \o hld_metadata(roles.hld.ret)
                       \o dd_metadata(roles.dd.ret) \o cs_part.val
                       \o jira_metadata(roles.jira.ret, tasks)))

save_tasks(res, now, tasks, roles) ==
    build_and_dump(res, now, tasks, roles, code_structure_metadata(roles.cs.ret, tasks))

\* save(result) called at the time now
save(res, now) ==
    save_tasks(res, now, extract_tasks_output(res.crew),
               role_payloads(extract_tasks_output(res.crew)))

-----------------------------------------------------------------------------
(* save on its own: a result whose crew output holds up to MaxSaveTasks     *)
(* tasks, or the four tasks of the pipeline in their order, saved once      *)

MaxSaveTasks == 2

L_hld_architect == <<"H", "i", "g", "h", "-", "L", "e", "v", "e", "l", SP, "D", "e", "s", "i", "g", "n", SP, "A", "r", "c", "h", "i", "t", "e", "c", "t">>
L_dd_specialist == <<"D", "e", "t", "a", "i", "l", "e", "d", SP, "D", "e", "s", "i", "g", "n", SP, "S", "p", "e", "c", "i", "a", "l", "i", "s", "t">>
L_cs_architect == <<"C", "o", "d", "e", SP, "S", "t", "r", "u", "c", "t", "u", "r", "e", SP, "A", "r", "c", "h", "i", "t", "e", "c", "t">>
L_delivery == <<"D", "e", "l", "i", "v", "e", "r", "y", SP, "P", "l", "a", "n", "n", "e", "r", SP, "&", SP, "J", "i", "r", "a", SP, "P", "r", "o", "j", "e", "c", "t", SP, "O", "r", "g", "a", "n", "i", "z", "e", "r">>
L_repo_planner == <<"R", "e", "p", "o", SP, "S", "t", "r", "u", "c", "t", "u", "r", "e", SP, "P", "l", "a", "n", "n", "e", "r">>
L_notes == <<"N", "o", "t", "e", "s">>

R_hld == <<BT, BT, BT, NL, LB, DQ, "f", "o", "l", "d", "e", "r", "_", "i", "d", DQ, ":", DQ, "f", DQ, ",", DQ, "h", "l", "_", "d", "o", "c", "_", "n", "a", "m", "e", DQ, ":", DQ, "h", DQ, RB, NL, BT, BT, BT>>
R_dd == <<LB, DQ, "d", "e", "t", "a", "i", "l", "e", "d", "_", "d", "o", "c", "_", "i", "d", DQ, ":", DQ, "d", DQ, RB>>
R_dd_name == <<LB, DQ, "d", "e", "t", "a", "i", "l", "e", "d", "_", "d", "o", "c", "_", "n", "a", "m", "e", DQ, ":", DQ, "n", DQ, RB>>
R_cs == <<LB, DQ, "a", "p", "p", "_", "n", "a", "m", "e", DQ, ":", DQ, "A", DQ, ",", DQ, "t", "r", "e", "e", DQ, ":", DQ, "A", "/", BS, BS, "n", "x", DQ, RB>>
R_cs_list_tree == <<BT, BT, BT, NL, LB, DQ, "t", "r", "e", "e", DQ, ":", LS, DQ, "x", DQ, RS, RB, NL, BT, BT, BT>>
R_cs_no_root == <<LB, DQ, "r", "o", "o", "t", DQ, ":", DQ, DQ, RB>>
R_jira == <<LB, DQ, "j", "i", "r", "a", "_", "p", "r", "o", "j", "e", "c", "t", "_", "k", "e", "y", DQ, ":", DQ, "K", DQ, RB>>
R_named_only == <<"a", "p", "p", "_", "n", "a", "m", "e", SP, "t", "r", "e", "e">>
R_two_objects == <<LB, DQ, "x", DQ, ":", "1", RB, SP, LB, DQ, "a", "p", "p", "_", "n", "a", "m", "e", DQ, ":", DQ, "A", DQ, ",", DQ, "t", "r", "e", "e", DQ, ":", DQ, "t", DQ, RB>>
R_oops == <<"o", "o", "p", "s">>

TaskOf(label, r) == [agent |-> label, json_dict |-> JNull, raw |-> r]

T_hld == TaskOf(L_hld_architect, R_hld)
T_dd == TaskOf(L_dd_specialist, R_dd)
T_cs == TaskOf(L_cs_architect, R_cs)
T_cs_list_tree == TaskOf(L_cs_architect, R_cs_list_tree)
T_jira == TaskOf(L_delivery, R_jira)

\* the tasks of build_mock_result, in their order
StandardSequence == <<T_hld, T_dd, T_cs, T_jira>>
StandardWithListTree == <<T_hld, T_dd, T_cs_list_tree, T_jira>>

SaveTasks ==
    {T_hld, T_dd, T_cs, T_cs_list_tree, T_jira,
     TaskOf(L_hld_architect, R_oops),
     TaskOf(L_dd_specialist, R_dd_name),
     TaskOf(L_repo_planner, R_cs_no_root),
     TaskOf(L_repo_planner, R_cs),
     TaskOf(L_notes, R_named_only),
     TaskOf(L_notes, R_two_objects),
     TaskOf(L_delivery, <<>>)}

CrewOf(tasks) ==
    [tasks_output |-> tasks, task_like |-> TRUE, agent |-> <<>>, json_dict |-> JNull,
     raw |-> R_jira]

Crews ==
    {NoCrew,
     [tasks_output |-> <<>>, task_like |-> FALSE, agent |-> <<>>, json_dict |-> JNull,
      raw |-> <<>>],
     [tasks_output |-> <<>>, task_like |-> TRUE, agent |-> L_delivery,
      json_dict |-> JNull, raw |-> R_jira]}
    \cup {CrewOf(ts) : ts \in TextsUpTo(SaveTasks, MaxSaveTasks)
                              \cup {StandardSequence, StandardWithListTree}}

V_success == JStr(<<"s", "u", "c", "c", "e", "s", "s">>)
V_app == JStr(<<"W", "o", "r", "d", "L", "e", "n", "g", "t", "h", "C", "h", "e", "c", "k", "e", "r">>)

Results ==
    {[status |-> V_success, config |-> JObj(<<Entry(K_app_name, V_app)>>), crew |-> c] :
        c \in Crews}
    \cup {[status |-> JStr(<<"f", "a", "i", "l", "e", "d">>), config |-> JNull, crew |-> c] : c \in Crews}
    \cup {[status |-> JNull, config |-> EmptyDict, crew |-> c] :
            c \in {NoCrew, CrewOf(StandardSequence)}}

\* datetime.now().isoformat() at the time of the call
Timestamps == {<<"2", "0", "2", "5", "-", "0", "1", "-", "0", "1", "T", "0", "9", ":", "3", "0", ":", "0", "0", ".", "0", "0", "0", "0", "0", "1">>, <<"2", "0", "2", "5", "-", "0", "1", "-", "0", "2", "T", "1", "0", ":", "0", "0", ":", "0", "0">>}

NotSaved == SaveFailed("not called")

InitSave ==
    /\ pc = "start"
    /\ result \in Results
    /\ saved = NotSaved
    /\ text = Unused
    /\ open_ch = Unused
    /\ close_ch = Unused
    /\ candidates = Unused
    /\ raw = Unused
    /\ parsed = Unused
    /\ tasks_output = Unused
    /\ agent_name_keywords = Unused
    /\ extracted = Unused
    /\ matched_task = Unused
    /\ jira_dict = Unused
    /\ jira_enriched = Unused
    /\ env = Unused
    /\ state = Unused
    /\ returned = Unused
    /\ artifact_files = Unused
    /\ reply = Unused

\* PlanningMetadataSaver(file_path).save(result)
Save ==
    /\ pc = "start"
    /\ \E now \in Timestamps : saved' = save(result, now)
    /\ pc' = "saved"
    /\ UNCHANGED <<text, open_ch, close_ch, candidates, raw, parsed, tasks_output,
                   agent_name_keywords, extracted, matched_task, jira_dict,
                   jira_enriched, loaderVars, result, artifact_files, reply>>

NextSave == Save

SpecSave == InitSave /\ [][NextSave]_vars

-----------------------------------------------------------------------------
(* What save leaves in the file *)

\* the document read back from the file that save wrote
DocOf(sv) == JsonLoads(sv.file)

SubObjects == <<K_hld, K_dd, K_code_structure, K_jira>>

\* the sub-object named k of the document records an error
HasLocalError(doc, k) == HasKey(doc, k) /\ Truthy(Get(DictGet(doc, k), K_error))

\* status, app_name and last_updated are in the document, the first two as
\* the result gave them (None where the result gave none)
BasicsKept(res, doc) ==
    /\ doc.ok /\ IsDict(doc.val)
    /\ \A k \in {K_status, K_app_name, K_last_updated} : HasKey(doc.val, k)
    /\ DictGet(doc.val, K_status) = res.status
    /\ DictGet(doc.val, K_app_name) =
          (IF Truthy(res.config) THEN Get(res.config, K_app_name) ELSE JNull)

\* the sub-objects that the roles yield, each taken on its own
role_parts(tasks, roles, cs_part) ==
    hld_metadata(roles.hld.ret) \o dd_metadata(roles.dd.ret)
    \o (IF Raised(cs_part) THEN <<>> ELSE cs_part.val)
    \o jira_metadata(roles.jira.ret, tasks)

PartsOf(tasks) ==
    role_parts(tasks, role_payloads(tasks),
               code_structure_metadata(extract_by_agent(tasks, KW_cs).ret, tasks))

\* where a sub-object records an error, every sub-object that a role yields
\* is in the document as the role yields it
ErrorsKeepOthers(doc, parts) ==
    (\E i \in 1..Len(SubObjects) : HasLocalError(doc, SubObjects[i]))
        => \A i \in 1..Len(parts) :
              HasKey(doc, parts[i].k) /\ DictGet(doc, parts[i].k) = parts[i].v

\* C21: the document that save writes holds status, app_name and
\* last_updated, the first two as the result gave them, and an error inside
\* a sub-object neither changes the status nor removes another sub-object.
C21_BasicsAndSubObjectsKept ==
    (pc = "saved" /\ saved.written) =>
        /\ BasicsKept(result, DocOf(saved))
        /\ ErrorsKeepOthers(DocOf(saved).val,
                            PartsOf(extract_tasks_output(result.crew)))

\* a document whose hld sub-object records an error, written with the status
\* success and with the jira sub-object of another task
C21_Witness ==
    /\ pc = "saved" /\ saved.written
    /\ result.status = V_success
    /\ HasLocalError(saved.metadata, K_hld)
    /\ HasKey(saved.metadata, K_jira)
    /\ Get(DictGet(saved.metadata, K_jira), K_jira_project_key) = JStr(<<"K">>)

\* C22: save returns for every list of fragments, and the file it leaves is
\* well-formed JSON.
C22_SaveAlwaysWrites ==
    pc = "saved" => (saved.raised = "none" /\ saved.written /\ DocOf(saved).ok)

\* the fields of a role that the payload recovered are in the sub-object, and
\* an error of the payload is there with its excerpt
Carried(sub, payload, fields) ==
    /\ \A i \in 1..Len(fields) :
          Truthy(Get(payload, fields[i])) => Truthy(Get(sub, fields[i]))
    /\ HasKey(payload, K_error) =>
          /\ Get(sub, K_error) = DictGet(payload, K_error)
          /\ Get(sub, K_raw_excerpt) = Get(payload, K_raw_excerpt)

\* a role whose selected fragment yielded a non-empty payload has its
\* sub-object in the document
RoleKept(doc, k, role, fields) ==
    (role.at # 0 /\ Truthy(role.ret)) =>
        (HasKey(doc, k) /\ Carried(DictGet(doc, k), role.ret, fields))

AllRolesKept(doc, roles) ==
    /\ RoleKept(doc, K_hld, roles.hld,
                <<K_folder_id, K_folder_name, K_hl_doc_id, K_hl_doc_name>>)
    /\ RoleKept(doc, K_dd, roles.dd,
                <<K_detailed_doc_id, K_detailed_doc_name, K_folder_id>>)
    /\ RoleKept(doc, K_code_structure, roles.cs, StructureKeys)
    /\ RoleKept(doc, K_jira, roles.jira,
                <<K_jira_project_key, K_implementation_plan, K_implementation_plan_str,
                  K_epics_created_count, K_stories_created_count>>)

\* C23: whenever the fragment selected for a role yields a non-empty object
\* or a parse failure, the document holds the sub-object of the role, with
\* the recovered fields or with the error and its excerpt.
C23_RecoveredDataKept ==
    (pc = "saved" /\ saved.written) =>
        AllRolesKept(saved.metadata,
                     role_payloads(extract_tasks_output(result.crew)))

\* the labels of the tasks, in their order
LabelsOf(tasks) == [i \in 1..Len(tasks) |-> tasks[i].agent]

StandardLabels == <<L_hld_architect, L_dd_specialist, L_cs_architect, L_delivery>>

\* each role takes its payload from the task of its own label
OwnFragments(roles) ==
    /\ roles.hld.at = 1
    /\ roles.dd.at = 2
    /\ roles.cs.at = 3
    /\ roles.jira.at = 4

\* C27: for tasks labelled as the pipeline labels them, in its order, each
\* of the four keyword lists of save selects the task of its own role.
C27_StandardLabelsSelectOwnFragment ==
    (pc = "saved" /\ LabelsOf(extract_tasks_output(result.crew)) = StandardLabels) =>
        OwnFragments(role_payloads(extract_tasks_output(result.crew)))

-----------------------------------------------------------------------------
(* Two calls in a row: the scanner and the parser on the same text, the     *)
(* enricher on the same payload object and the same tasks.  What a call     *)
(* leaves behind is kept in the state: the locals of the scan at its end,   *)
(* and the dict of the caller, which is the json_dict of a task when        *)
(* _extract_by_agent returned that json_dict.                               *)

MaxRerunTasks == 2

D_key == JObj(<<Entry(K_jira_project_key, V_ABC)>>)
D_other == JObj(<<Entry(<<"z">>, JNum(1))>>)

RerunTasks ==
    {[agent |-> L_jira, json_dict |-> JNull, raw |-> R_fence_ex],
     [agent |-> L_jira, json_dict |-> JNull, raw |-> R_plan_bracket],
     [agent |-> L_jira, json_dict |-> JNull, raw |-> R_prose],
     [agent |-> L_jira, json_dict |-> D_other, raw |-> R_prose],
     [agent |-> L_jira, json_dict |-> D_key, raw |-> R_counts],
     [agent |-> L_jira, json_dict |-> D_other, raw |-> R_fence_ex],
     [agent |-> L_hld, json_dict |-> D_key, raw |-> R_key_obj]}

RerunTexts == {QuotedCloseText, UnclosedText, R_list_dict, R_counts}

\* the locals with which a scan starts: depth, start_idx, in_string and
\* escape are assigned anew and the list is a new one, whatever the scan
\* before it left
scan_start_resumed(left) == left

scan_start(left) == ScanStart

\* json_dict of the task returned is the payload object itself
Aliased(tasks, at) ==
    at # 0 /\ IsDict(tasks[at].json_dict) /\ Truthy(tasks[at].json_dict)

InitRerun ==
    /\ pc = "run0"
    /\ text \in RerunTexts
    /\ tasks_output \in TextsUpTo(RerunTasks, MaxRerunTasks) \ {<<>>}
    /\ jira_dict = extract_by_agent(tasks_output, KW_jira).ret
    /\ matched_task = (IF Aliased(tasks_output, extract_by_agent(tasks_output, KW_jira).at)
                       THEN extract_by_agent(tasks_output, KW_jira).at ELSE 0)
    /\ candidates = ScanStart
    /\ extracted = <<>>
    /\ open_ch = LB
    /\ close_ch = RB
    /\ raw = Unused
    /\ parsed = Unused
    /\ agent_name_keywords = Unused
    /\ jira_enriched = Unused
    /\ env = Unused
    /\ state = Unused
    /\ returned = Unused
    /\ result = Unused
    /\ saved = Unused
    /\ artifact_files = Unused
    /\ reply = Unused

\* what one call of each of the three yields
RunRecord(given, scanned, loaded, enriched) ==
    [given |-> given, spans |-> scanned.spans, parsed |-> loaded, payload |-> enriched]

\* scan_pairs and _parse_json_from_raw on text, _ensure_jira_fields on the
\* payload object and the tasks
Run ==
    /\ pc \in {"run0", "run1"}
    /\ candidates' = scan_loop(text, open_ch, close_ch, scan_start(candidates), 1)
    /\ extracted' = Append(extracted,
                           RunRecord(jira_dict, candidates', parse_json_from_raw(text),
                                     ensure_jira_fields(jira_dict, tasks_output)))
    /\ jira_dict' = caller_dict_after(jira_dict, tasks_output)
    /\ tasks_output' = IF matched_task = 0 THEN tasks_output
                       ELSE [tasks_output EXCEPT ![matched_task].json_dict = jira_dict']
    /\ pc' = IF pc = "run0" THEN "run1" ELSE "run2"
    /\ UNCHANGED <<text, open_ch, close_ch, raw, parsed, agent_name_keywords,
                   matched_task, jira_enriched, loaderVars, stageVars>>

NextRerun == Run

SpecRerun == InitRerun /\ [][NextRerun]_vars

\* what a run yields, without what it was given
Yield(run) == [spans |-> run.spans, parsed |-> run.parsed, payload |-> run.payload]

-----------------------------------------------------------------------------
(* mcps/workflow_state_mcp: the tools of server.py over file_tools.py and   *)
(* file_utils.py.  artifact_files is the directory workflow_state: for each *)
(* artifact whether its file is there and the characters in it.  reply is   *)
(* the string the last tool returned, with the tool and the artifact.       *)

Artifacts == {"HLD", "DD", "code_structure", "result"}

NoFile == [exists |-> FALSE, data |-> <<>>]
FileOf(data) == [exists |-> TRUE, data |-> data]

K_content == <<"c", "o", "n", "t", "e", "n", "t">>
K_model_json == <<"m", "o", "d", "e", "l", "_", "j", "s", "o", "n">>
K_tool == <<"t", "o", "o", "l">>
K_details == <<"d", "e", "t", "a", "i", "l", "s">>
K_local_saved == <<"l", "o", "c", "a", "l", "_", "s", "a", "v", "e", "d">>

\* json.dumps(v) with the separators it has without indent
RECURSIVE Dumps(_)
RECURSIVE DumpsItems(_, _, _)
DumpsItems(kids, i, named) ==
    IF i > Len(kids) THEN <<>>
    ELSE (IF i > 1 THEN <<",", SP>> ELSE <<>>)
         \o (IF named THEN Quoted(kids[i].k) \o <<":", SP>> ELSE <<>>)
         \o Dumps(kids[i].v) \o DumpsItems(kids, i + 1, named)

Dumps(v) ==
    CASE v.t = "str" -> Quoted(v.s)
      [] v.t = "num" -> IntText(v.n)
      [] v.t = "lit" -> LitText(v)
      [] v.t = "arr" -> <<LS>> \o DumpsItems(v.kids, 1, FALSE) \o <<RS>>
      [] v.t = "obj" -> <<LB>> \o DumpsItems(v.kids, 1, TRUE) \o <<RB>>

\* ok(**payload)
ok(payload) == Dumps(JObj(<<Entry(K_status, JStr(<<"s", "u", "c", "c", "e", "s", "s">>))>> \o payload))

\* err(exc, tool=...): a ValidationError is reported with its details, any
\* other exception with its text
err(kind, tool) ==
    IF kind = "ValidationError"
    THEN Dumps(JObj(<<Entry(K_status, JStr(<<"e", "r", "r", "o", "r">>)),
                      Entry(K_error, JStr(<<"v", "a", "l", "i", "d", "a", "t", "i", "o", "n", "_", "e", "r", "r", "o", "r">>)),
                      Entry(K_details, Message("errors of the model")),
                      Entry(K_tool, JStr(tool))>>))
    ELSE Dumps(JObj(<<Entry(K_status, JStr(<<"e", "r", "r", "o", "r">>)),
                      Entry(K_error, Message("No such file or directory")),
                      Entry(K_tool, JStr(tool))>>))

\* save_file(rel_path, content): the characters written, as they are where
\* the line separator is the line feed
save_file(files, a, content) == [files EXCEPT ![a] = FileOf(content)]

\* open(..., 'r').read(): a carriage return, with the line feed after it if
\* there is one, is read as a line feed
UniversalNewlines(s) ==
    LET kept == SelectSeq([p \in 1..Len(s) |-> p],
                          LAMBDA p : ~(s[p] = NL /\ p > 1 /\ s[p - 1] = "\r"))
    IN  [k \in 1..Len(kept) |-> IF s[kept[k]] = "\r" THEN NL ELSE s[kept[k]]]

\* read_file(rel_path)
read_file(files, a) ==
    IF files[a].exists THEN Return(JStr(UniversalNewlines(files[a].data)))
    ELSE Raise("FileNotFoundError")

(* tools/analysis_and_planning/models.py: a field is named with the type it *)
(* declares                                                                 *)

FileFields == <<<<K_path, "str">>, <<K_purpose, "str">>>>

CodeStructureFields ==
    <<<<K_app_name, "str">>, <<K_root, "str">>, <<K_tree, "str">>,
      <<K_files, "files">>, <<K_assumptions, "strs">>, <<K_local_saved, "bool">>>>

ResultFields ==
    <<<<K_implementation_plan, "strs">>, <<K_jira_project_key, "str">>,
      <<K_epics_created_count, "int">>, <<K_stories_created_count, "int">>,
      <<K_local_saved, "bool">>>>

RECURSIVE HasFields(_, _)
\* v is a dict that has every field with a value of the declared type
HasFields(v, fields) ==
    /\ IsDict(v)
    /\ \A i \in 1..Len(fields) :
          /\ HasKey(v, fields[i][1])
          /\ LET x == DictGet(v, fields[i][1]) IN
             CASE fields[i][2] = "str" -> IsStr(x)
               [] fields[i][2] = "int" -> x.t = "num"
               [] fields[i][2] = "bool" -> x \in {JTrue, JFalse}
               [] fields[i][2] = "strs" -> IsStrList(x)
               [] fields[i][2] = "files" ->
                     IsList(x) /\ \A j \in 1..Len(x.kids) : HasFields(x.kids[j].v, FileFields)

RECURSIVE ModelOf(_, _)
\* the model: the declared fields in their order, what else the dict holds
\* is dropped
ModelOf(v, fields) ==
    JObj([i \in 1..Len(fields) |->
            Entry(fields[i][1],
                  IF fields[i][2] = "files"
                  THEN JArr([j \in 1..Len(DictGet(v, K_files).kids) |->
                               Entry(<<>>, ModelOf(DictGet(v, K_files).kids[j].v, FileFields))])
                  ELSE DictGet(v, fields[i][1]))])

\* the model made of what json.loads made of the text, or the
\* ValidationError
load_model(fields, loaded) ==
    IF loaded.ok /\ HasFields(loaded.val, fields)
    THEN Return(ModelOf(loaded.val, fields))
    ELSE Raise("ValidationError")

\* _load_model_json(ModelCls, raw_json) and ModelCls.parse_raw(data)
load_model_json(fields, raw_json) == load_model(fields, JsonLoads(raw_json))

\* a reply with the tool that gave it
ReplyOf(tool, a, txt) == [tool |-> tool, artifact |-> a, text |-> txt]

\* analysis_and_planning__save_HLD and __save_DD: save_HLD returns nothing,
\* path is None
save_markdown(files, a, content) == save_file(files, a, content)

save_markdown_reply(tool) == ok(<<Entry(K_path, JNull)>>)

\* the reply of a read tool of a markdown artifact, r what read_file gave
markdown_reply(r, tool) ==
    IF Raised(r) THEN err(r.exc, tool) ELSE ok(<<Entry(K_content, r.val)>>)

\* analysis_and_planning__read_HLD and __read_DD
read_markdown_reply(files, a, tool) == markdown_reply(read_file(files, a), tool)

\* the files once a save tool of a JSON artifact has returned, m what the
\* validation gave: the model is written as model.json()
saved_model(files, a, m) ==
    IF Raised(m) THEN files ELSE save_file(files, a, Dumps(m.val))

\* the reply of that tool
saved_model_reply(m, tool) ==
    IF Raised(m) THEN err(m.exc, tool) ELSE ok(<<Entry(K_path, JNull)>>)

\* read_code_structure and read_result: parse_raw of what read_file gave
parse_read(fields, r) ==
    IF Raised(r) THEN r ELSE load_model_json(fields, r.val.s)

read_model(files, a, fields) == parse_read(fields, read_file(files, a))

\* the reply of a read tool of a JSON artifact, m what read_model gave: the
\* model is returned as _dump_model_json writes it
model_reply(m, tool) ==
    IF Raised(m) THEN err(m.exc, tool)
    ELSE ok(<<Entry(K_model_json, JStr(json_dump(m.val)))>>)

\* analysis_and_planning__read_code_structure and __read_result
read_model_reply(files, a, fields, tool) == model_reply(read_model(files, a, fields), tool)

-----------------------------------------------------------------------------
(* The tool server on its own: any sequence of calls of the eight tools,    *)
(* from an empty workflow_state.  saved records, for each artifact, what    *)
(* its last save that returned success was given: the content, or the       *)
(* model that the JSON was validated to.                                    *)

M_plain == <<"a">>
M_lines == <<"b", NL>>
M_crlf == <<"a", "\r", NL, "b">>
MarkdownContents == {M_plain, M_lines, M_crlf}

J_structure == <<LB, DQ, "a", "p", "p", "_", "n", "a", "m", "e", DQ, ":", DQ, "A", DQ, ",", DQ, "r", "o", "o", "t", DQ, ":", DQ, "r", DQ, ",", DQ, "t", "r", "e", "e", DQ, ":", DQ, "t", DQ, ",", DQ, "f", "i", "l", "e", "s", DQ, ":", LS, LB, DQ, "p", "a", "t", "h", DQ, ":", DQ, "p", DQ, ",", DQ, "p", "u", "r", "p", "o", "s", "e", DQ, ":", DQ, "q", DQ, RB, RS, ",", DQ, "a", "s", "s", "u", "m", "p", "t", "i", "o", "n", "s", DQ, ":", LS, DQ, "s", DQ, RS, ",", DQ, "l", "o", "c", "a", "l", "_", "s", "a", "v", "e", "d", DQ, ":", "t", "r", "u", "e", RB>>
J_structure_extra == <<LB, DQ, "x", DQ, ":", "1", ",", DQ, "a", "p", "p", "_", "n", "a", "m", "e", DQ, ":", DQ, "B", DQ, ",", DQ, "r", "o", "o", "t", DQ, ":", DQ, "r", DQ, ",", DQ, "t", "r", "e", "e", DQ, ":", DQ, "a", BS, "n", "b", DQ, ",", DQ, "f", "i", "l", "e", "s", DQ, ":", LS, RS, ",", DQ, "a", "s", "s", "u", "m", "p", "t", "i", "o", "n", "s", DQ, ":", LS, RS, ",", DQ, "l", "o", "c", "a", "l", "_", "s", "a", "v", "e", "d", DQ, ":", "f", "a", "l", "s", "e", RB>>
J_structure_short == <<LB, DQ, "a", "p", "p", "_", "n", "a", "m", "e", DQ, ":", DQ, "A", DQ, ",", DQ, "r", "o", "o", "t", DQ, ":", DQ, "r", DQ, RB>>
J_result == <<LB, DQ, "i", "m", "p", "l", "e", "m", "e", "n", "t", "a", "t", "i", "o", "n", "_", "p", "l", "a", "n", DQ, ":", LS, DQ, "1", ".", SP, "a", DQ, RS, ",", DQ, "j", "i", "r", "a", "_", "p", "r", "o", "j", "e", "c", "t", "_", "k", "e", "y", DQ, ":", DQ, "K", DQ, ",", DQ, "e", "p", "i", "c", "s", "_", "c", "r", "e", "a", "t", "e", "d", "_", "c", "o", "u", "n", "t", DQ, ":", "1", ",", DQ, "s", "t", "o", "r", "i", "e", "s", "_", "c", "r", "e", "a", "t", "e", "d", "_", "c", "o", "u", "n", "t", DQ, ":", "2", ",", DQ, "l", "o", "c", "a", "l", "_", "s", "a", "v", "e", "d", DQ, ":", "t", "r", "u", "e", RB>>
J_result_empty == <<LB, DQ, "i", "m", "p", "l", "e", "m", "e", "n", "t", "a", "t", "i", "o", "n", "_", "p", "l", "a", "n", DQ, ":", LS, RS, ",", DQ, "j", "i", "r", "a", "_", "p", "r", "o", "j", "e", "c", "t", "_", "k", "e", "y", DQ, ":", DQ, DQ, ",", DQ, "e", "p", "i", "c", "s", "_", "c", "r", "e", "a", "t", "e", "d", "_", "c", "o", "u", "n", "t", DQ, ":", "0", ",", DQ, "s", "t", "o", "r", "i", "e", "s", "_", "c", "r", "e", "a", "t", "e", "d", "_", "c", "o", "u", "n", "t", DQ, ":", "0", ",", DQ, "l", "o", "c", "a", "l", "_", "s", "a", "v", "e", "d", DQ, ":", "f", "a", "l", "s", "e", RB>>
J_not_json == <<LB, "o", "o", "p", "s">>

StructureInputs == {J_structure, J_structure_extra, J_structure_short, J_not_json}
ResultInputs == {J_result, J_result_empty, J_not_json, J_structure}

T_save_HLD == <<"a", "n", "a", "l", "y", "s", "i", "s", "_", "a", "n", "d", "_", "p", "l", "a", "n", "n", "i", "n", "g", "_", "_", "s", "a", "v", "e", "_", "H", "L", "D">>
T_read_HLD == <<"a", "n", "a", "l", "y", "s", "i", "s", "_", "a", "n", "d", "_", "p", "l", "a", "n", "n", "i", "n", "g", "_", "_", "r", "e", "a", "d", "_", "H", "L", "D">>
T_save_DD == <<"a", "n", "a", "l", "y", "s", "i", "s", "_", "a", "n", "d", "_", "p", "l", "a", "n", "n", "i", "n", "g", "_", "_", "s", "a", "v", "e", "_", "D", "D">>
T_read_DD == <<"a", "n", "a", "l", "y", "s", "i", "s", "_", "a", "n", "d", "_", "p", "l", "a", "n", "n", "i", "n", "g", "_", "_", "r", "e", "a", "d", "_", "D", "D">>
T_save_code_structure == <<"a", "n", "a", "l", "y", "s", "i", "s", "_", "a", "n", "d", "_", "p", "l", "a", "n", "n", "i", "n", "g", "_", "_", "s", "a", "v", "e", "_", "c", "o", "d", "e", "_", "s", "t", "r", "u", "c", "t", "u", "r", "e">>
T_read_code_structure == <<"a", "n", "a", "l", "y", "s", "i", "s", "_", "a", "n", "d", "_", "p", "l", "a", "n", "n", "i", "n", "g", "_", "_", "r", "e", "a", "d", "_", "c", "o", "d", "e", "_", "s", "t", "r", "u", "c", "t", "u", "r", "e">>
T_save_result == <<"a", "n", "a", "l", "y", "s", "i", "s", "_", "a", "n", "d", "_", "p", "l", "a", "n", "n", "i", "n", "g", "_", "_", "s", "a", "v", "e", "_", "r", "e", "s", "u", "l", "t">>
T_read_result == <<"a", "n", "a", "l", "y", "s", "i", "s", "_", "a", "n", "d", "_", "p", "l", "a", "n", "n", "i", "n", "g", "_", "_", "r", "e", "a", "d", "_", "r", "e", "s", "u", "l", "t">>

NoSave == JNull

InitServer ==
    /\ pc = "serving"
    /\ artifact_files = [a \in Artifacts |-> NoFile]
    /\ saved = [a \in Artifacts |-> NoSave]
    /\ reply = ReplyOf(<<>>, "none", <<>>)
    /\ result = Unused
    /\ text = Unused
    /\ open_ch = Unused
    /\ close_ch = Unused
    /\ candidates = Unused
    /\ raw = Unused
    /\ parsed = Unused
    /\ tasks_output = Unused
    /\ agent_name_keywords = Unused
    /\ extracted = Unused
    /\ matched_task = Unused
    /\ jira_dict = Unused
    /\ jira_enriched = Unused
    /\ env = Unused
    /\ state = Unused
    /\ returned = Unused

\* a save tool of a markdown artifact, called with content
SaveMarkdown(a, tool, content) ==
    /\ artifact_files' = save_markdown(artifact_files, a, content)
    /\ reply' = ReplyOf(tool, a, save_markdown_reply(tool))
    /\ saved' = [saved EXCEPT ![a] = JStr(content)]

\* a save tool of a JSON artifact, m what the validation of model_json gave
SaveModel(a, tool, m) ==
    /\ artifact_files' = saved_model(artifact_files, a, m)
    /\ reply' = ReplyOf(tool, a, saved_model_reply(m, tool))
    /\ saved' = IF Raised(m) THEN saved ELSE [saved EXCEPT ![a] = m.val]

ServerFrame ==
    UNCHANGED <<pc, text, open_ch, close_ch, candidates, raw, parsed, tasks_output,
                agent_name_keywords, extracted, matched_task, jira_dict,
                jira_enriched, loaderVars, result>>

SaveHLD ==
    /\ pc = "serving"
    /\ \E content \in MarkdownContents : SaveMarkdown("HLD", T_save_HLD, content)
    /\ ServerFrame

ReadHLD ==
    /\ pc = "serving"
    /\ reply' = ReplyOf(T_read_HLD, "HLD", read_markdown_reply(artifact_files, "HLD", T_read_HLD))
    /\ UNCHANGED <<artifact_files, saved>>
    /\ ServerFrame

SaveDD ==
    /\ pc = "serving"
    /\ \E content \in MarkdownContents : SaveMarkdown("DD", T_save_DD, content)
    /\ ServerFrame

ReadDD ==
    /\ pc = "serving"
    /\ reply' = ReplyOf(T_read_DD, "DD", read_markdown_reply(artifact_files, "DD", T_read_DD))
    /\ UNCHANGED <<artifact_files, saved>>
    /\ ServerFrame

SaveCodeStructure ==
    /\ pc = "serving"
    /\ \E model_json \in StructureInputs :
          SaveModel("code_structure", T_save_code_structure,
                    load_model_json(CodeStructureFields, model_json))
    /\ ServerFrame

ReadCodeStructure ==
    /\ pc = "serving"
    /\ reply' = ReplyOf(T_read_code_structure, "code_structure",
                        read_model_reply(artifact_files, "code_structure",
                                         CodeStructureFields, T_read_code_structure))
    /\ UNCHANGED <<artifact_files, saved>>
    /\ ServerFrame

SaveResult ==
    /\ pc = "serving"
    /\ \E model_json \in ResultInputs :
          SaveModel("result", T_save_result, load_model_json(ResultFields, model_json))
    /\ ServerFrame

ReadResult ==
    /\ pc = "serving"
    /\ reply' = ReplyOf(T_read_result, "result",
                        read_model_reply(artifact_files, "result", ResultFields,
                                         T_read_result))
    /\ UNCHANGED <<artifact_files, saved>>
    /\ ServerFrame

NextServer ==
    \/ SaveHLD \/ ReadHLD \/ SaveDD \/ ReadDD
    \/ SaveCodeStructure \/ ReadCodeStructure \/ SaveResult \/ ReadResult

SpecServer == InitServer /\ [][NextServer]_vars

ReadTools == {T_read_HLD, T_read_DD, T_read_code_structure, T_read_result}

\* what a read reply returns as the artifact: content as it is, model_json
\* as the JSON it is
Returned(r) ==
    IF HasKey(r, K_content) THEN DictGet(r, K_content)
    ELSE IF HasKey(r, K_model_json) /\ IsStr(DictGet(r, K_model_json))
         THEN JsonLoads(DictGet(r, K_model_json).s).val
    ELSE JNull

\* the reply of a read: an error before any save of the artifact, else
\* success with what the last successful save was given
ReadRight(r, last) ==
    /\ r.ok /\ IsDict(r.val)
    /\ IF last = NoSave THEN Get(r.val, K_status) = JStr(<<"e", "r", "r", "o", "r">>)
       ELSE Get(r.val, K_status) = JStr(<<"s", "u", "c", "c", "e", "s", "s">>) /\ Returned(r.val) = last

\* the file of an artifact is there exactly when the artifact was saved
OwnFilesOnly == \A a \in Artifacts : artifact_files[a].exists <=> saved[a] # NoSave

\* C30: a read returns success with the content of the last successful save
\* of its artifact, an error value before any save of it, and a save writes
\* no file but that of its own artifact.
C30_ReadReturnsLastSave ==
    pc = "serving" =>
        /\ reply.tool \in ReadTools =>
              ReadRight(JsonLoads(reply.text), saved[reply.artifact])
        /\ OwnFilesOnly

=============================================================================
